---------------------------- MODULE Spec2Model ----------------------------
(***************************************************************************)
(* Model of the crawling core of korea_webnovel_recommender.               *)
(*                                                                         *)
(*   SpecList   : one CrawlerClient.navigate_and_extract call (list phase) *)
(*                with either pagination strategy.                         *)
(*   SpecDetail : the detail phase of KakaoPageCrawler.crawl_all_novels /  *)
(*                crawl_new_releases: fetch_detail tasks gathered in       *)
(*                batches, each running CrawlerClient.extract_detail_page. *)
(***************************************************************************)
EXTENDS Integers, Sequences, FiniteSets, TLC

(***************************************************************************)
(* Bounds of the model.                                                    *)
(***************************************************************************)
\* largest requested limit of a list crawl
MaxLimit == 3
\* largest number of list-item elements in one rendered page
MaxPageItems == 2
\* number of different item URLs the site can show
NUrls == 3
\* largest page number of a click-pagination run
MaxPages == 3
\* largest number of basic items handed to the detail phase
MaxItems == 7
\* largest number of basic items when their urls are of every kind
MaxFetchItems == 2
\* largest number of crawl calls made on one platform crawler
MaxCrawls == 2
\* number of concurrent create_page calls made on one client
NCallers == 3
\* longest list handed to deduplicate_novels
MaxDedupLen == 3
\* largest number of lists handed to merge_novel_lists, and their length
MaxLists == 2
MaxMergeLen == 2
\* largest number of keywords of a raw item
MaxKeywords == 3
\* largest number of nodes of an element a selector is resolved against
MaxNodes == 2
\* largest number of list items whose fields a run resolves
MaxExtractItems == 2
\* largest number of add_novels calls, and of novels in one call
MaxAddCalls == 2
MaxBatchLen == 2
\* largest number of novels one platform crawl returns
MaxPlatformNovels == 2
\* largest number of genres of one crawl_multiple_genres call, and of novels
\* one genre returns
MaxGenres == 3
MaxGenreNovels == 2
\* longest list one crawler call of a CLI entry point returns
MaxSaveLen == 2
\* largest page count of the site and largest max_pages argument
MaxTotalPages == 4
MaxPagesArg == 4
\* largest max_retries argument of fetch_page
MaxRetries == 4

(***************************************************************************)
(* Program constants.                                                      *)
(***************************************************************************)
\* crawler_client.py:132  max_no_new_items = 3
max_no_new_items == 3
\* kakao.py:178 / 306  batch_size = 5
batch_size == 5

(***************************************************************************)
(* Values.                                                                 *)
(***************************************************************************)
Min(a, b) == IF a <= b THEN a ELSE b

\* the i-th item URL of the site (hrefs of the list items contain /content/);
\* "" is the value _extract_field yields when the url selector matches nothing
UrlName(i) == "/content/" \o ToString(i)
Urls == {UrlName(i) : i \in 1..NUrls}
UrlValues == Urls \cup {""}

\* the dict built per list item by the field loop (only the url field decides
\* what the pagination loops do)
Items == [url : UrlValues]

\* sequences over S of length at most n
SeqsUpTo(S, n) == UNION {[1..k -> S] : k \in 0..n}

\* what _select_elements(soup, list_selector) can yield for a rendered page
Doms == SeqsUpTo(Items, MaxPageItems)

\* python  s[:n]  for n >= 0
Take(s, n) == SubSeq(s, 1, Min(n, Len(s)))

Strategies == {"infinite_scroll", "pagination"}
NextCtls == {"absent", "hidden", "visible"}

VARIABLES
    \* ---- navigate_and_extract ----
    strategy,            \* pagination_strategy argument
    limit,               \* limit argument
    lpc,                 \* position of the call
    page_open,           \* the page created by create_page is open
    dom,                 \* list items of the page as currently rendered
    next_ctl,            \* state of the next-page control on the current page
    results,             \* local results of _extract_with_scroll/_pagination
    previous_count,      \* _extract_with_scroll
    no_new_items_count,  \* _extract_with_scroll
    page_num,            \* _extract_with_pagination
    nav_results,         \* results of navigate_and_extract (its return value)
    outcome,             \* "running" | "returned" | "raised"
    \* ---- history of the run (read by the properties only) ----
    firstSeen,           \* URLs in order of first appearance in a scanned page
    stagnant,            \* number of latest consecutive scans that added nothing
    stop,                \* why the pagination loop ended
    \* ---- detail phase of crawl_all_novels / crawl_new_releases ----
    novels_basic,        \* result of the list phase
    overtook,            \* a fetch returned its entity after a later one of its batch (history)
    dpc,                 \* position of the crawl: "loop" | "gather" | "done" | "raised"
    batch_i,             \* first index (from 1) of the current batch
    task,                \* per basic item: its fetch_detail coroutine
    open_pages,          \* basic items whose detail page is open
    novels,              \* entities collected so far
    \* ---- a platform crawler entering crawl_all_novels, and its login ----
    platform,            \* "kakao" | "naver"
    include_adult,       \* include_adult argument (a local the entry may clear)
    creds,               \* settings hold a username and a password
    is_logged_in,        \* attribute of the platform crawler
    epc,                 \* position of the crawl entry
    crawls,              \* crawl calls made on this crawler so far
    lg_pc,               \* position of CrawlerClient.login_to_site
    lg_page_open,        \* the page created by login_to_site is open
    lg_steps,            \* browser steps login_to_site has completed (history)
    lg_url_changed,      \* the page url after settling differs from the login url
    lg_pending,          \* value of the return statement waiting for finally
    lg_result,           \* outcome of login_to_site
    login_ret,           \* outcome of the crawler's login()
    requested,           \* what the crawl asked the platform for
    \* ---- CrawlerClient browser ownership (create_page / close) ----
    cl_playwright,       \* self._playwright_context (0: None)
    cl_browser,          \* self.browser (0: None, else the number of the launch)
    cl_context,          \* self.context (0: None, else the browser it belongs to)
    caller,              \* per concurrent create_page call: its position
    launched,            \* browsers launched since the last close()
    \* ---- deduplicate_novels applied to a list, and again to its result ----
    dd_pc,
    dd_in,
    dd_once,
    dd_twice,
    \* ---- merge_novel_lists applied to several lists ----
    mg_pc,
    mg_lists,            \* the argument lists, in argument order
    mg_out,
    \* ---- normalize_novel_data applied to a raw item ----
    nz_pc,
    nz_is_str,           \* isinstance(raw_data["keywords"], str)
    nz_raw,
    nz_out,
    \* ---- _extract_field applied to an element ----
    se_pc,
    se_element,          \* the nodes of the element, in document order
    se_selector,
    se_result,           \* what the call returned, or that it raised
    \* ---- one navigate_and_extract run resolving its field selectors ----
    ex_pc,
    ex_items,            \* the elements list_selector matched, in page order
    ex_field_selectors,  \* field_selectors, in dict order
    ex_i,                \* index of the item being extracted
    ex_f,                \* index of the field being extracted
    ex_data,             \* data of the item being extracted
    ex_results,          \* results of the scan loop
    ex_ret,              \* what navigate_and_extract returned
    \* ---- VectorDBService.add_novels on the novels table ----
    db_rows,             \* rows of the novels table, in insertion order
    db_next_id,          \* next value of the id sequence
    db_calls,            \* add_novels calls made so far
    db_before,           \* the rows before the last call (history)
    db_batch,            \* the argument of the last call (history)
    db_outcome,          \* "none" or how the last call ended
    \* ---- crawl_all_platforms and its crawl_platform calls ----
    ap_pc,               \* position of crawl_all_platforms
    ap_save_to_db,       \* its save_to_db argument
    ap_i,                \* index of the platform crawled next
    ap_all_novels,       \* all_novels
    ap_collected,        \* what the platform crawls returned, concatenated (history)
    ap_saves,            \* the calls of save_crawled_novels made so far (history)
    \* ---- extract_detail_page and its tab block ----
    rv_pc,               \* position of extract_detail_page
    rv_tab_selector,     \* its tab_selector argument, "" when none is configured
    rv_field_selectors,  \* the fields of its field_selectors argument
    rv_tab,              \* the tab control of the page: missing, hidden or visible
    rv_content,          \* what the page shows: base, loading (tab clicked) or revealed
    rv_page_open,        \* the page of the call is open
    rv_clicked,          \* tab.click() returned (history)
    rv_settled,          \* wait_for_load_state returned (history)
    rv_caught,           \* the except of the tab block was entered (history)
    rv_failed,           \* what the outer except caught: "", goto or content (history)
    rv_html,             \* the markup page.content() returned, "" before
    rv_result,           \* result
    \* ---- crawl_multiple_genres ----
    gn_pc,               \* position of crawl_multiple_genres
    gn_genres,           \* its genres argument
    gn_i,                \* index of the genre crawled next
    gn_all_novels,       \* all_novels
    gn_attempts,         \* the genres crawl_all_novels was called with, in call order (history)
    gn_returned,         \* what each call returned, <<>> standing for a call that raised (history)
    gn_raised,           \* the calls that raised (history)
    \* ---- scans of _extract_with_scroll ----
    sc_scans,            \* number of scans an infinite-scroll run has made (history)
    \* ---- the CLI entry points and what they save ----
    sv_pc,               \* position of the CLI entry point
    sv_entry,            \* the entry point: crawl_platform, crawl_all_platforms or crawl_special
    sv_save_to_db,       \* its save_to_db argument
    sv_crawled,          \* the lists its crawler calls return, in call order
    sv_saved,            \* the lists handed to save_crawled_novels (history)
    \* ---- crawl_all of the scheduled list crawler ----
    ca_pc,               \* position of BaseCrawler.crawl_all
    ca_max_pages,        \* its max_pages argument: <<>> for None, <<n>> for the integer n
    ca_total_pages,      \* what get_total_pages returned
    ca_pages_to_crawl,   \* pages_to_crawl
    ca_page,             \* the loop variable page
    ca_crawled,          \* the pages crawl_list_page was called with, in call order (history)
    \* ---- fetch_page of the scheduled list crawler ----
    fp_pc,               \* position of BaseCrawler.fetch_page
    fp_max_retries,      \* its max_retries argument
    fp_attempt,          \* the loop variable attempt
    fp_outcomes,         \* how each request attempt ended, in order (history)
    fp_waits,            \* the retry waits slept, in seconds (history)
    fp_ret               \* what fetch_page returned: page or None (none before)

listVars == <<strategy, limit, lpc, page_open, dom, next_ctl, results,
              previous_count, no_new_items_count, page_num, nav_results,
              outcome, firstSeen, stagnant, stop>>

detailVars == <<novels_basic, overtook, dpc, batch_i, task, open_pages, novels>>

loginVars == <<platform, include_adult, creds, is_logged_in, epc, crawls,
               lg_pc, lg_page_open, lg_steps, lg_url_changed, lg_pending,
               lg_result, login_ret, requested>>

browserVars == <<cl_playwright, cl_browser, cl_context, caller, launched>>

dedupVars == <<dd_pc, dd_in, dd_once, dd_twice>>

mergeVars == <<mg_pc, mg_lists, mg_out>>

\* the groups above, and the groups that follow them
coreVars == <<listVars, detailVars, loginVars, browserVars, dedupVars>>

normVars == <<nz_pc, nz_is_str, nz_raw, nz_out>>

selectVars == <<se_pc, se_element, se_selector, se_result>>

extractVars == <<ex_pc, ex_items, ex_field_selectors, ex_i, ex_f, ex_data,
                 ex_results, ex_ret>>

storeVars == <<db_rows, db_next_id, db_calls, db_before, db_batch, db_outcome>>

allPlatformsVars == <<ap_pc, ap_save_to_db, ap_i, ap_all_novels, ap_collected, ap_saves>>

revealVars == <<rv_pc, rv_tab_selector, rv_field_selectors, rv_tab, rv_content, rv_page_open, rv_clicked, rv_settled, rv_caught, rv_failed, rv_html, rv_result>>

genresVars == <<gn_pc, gn_genres, gn_i, gn_all_novels, gn_attempts, gn_returned, gn_raised>>

scansVars == <<sc_scans>>

saveVars == <<sv_pc, sv_entry, sv_save_to_db, sv_crawled, sv_saved>>

crawlAllVars == <<ca_pc, ca_max_pages, ca_total_pages, ca_pages_to_crawl, ca_page, ca_crawled>>

fetchPageVars == <<fp_pc, fp_max_retries, fp_attempt, fp_outcomes, fp_waits, fp_ret>>

moreVars == <<mergeVars, normVars, selectVars, extractVars, storeVars, allPlatformsVars, revealVars, genresVars, scansVars, saveVars, crawlAllVars, fetchPageVars>>

vars == <<coreVars, moreVars>>

(***************************************************************************)
(* crawler_client.py:144-154 / 194-203: the for loop over the items of one *)
(* scan.  items: the elements not yet visited; res: results so far.        *)
(***************************************************************************)
HasUrl(res, u) == \E i \in 1..Len(res) : res[i].url = u

\* line 153 / 202: the dedup condition
IsNew(res, data) == data.url # "" /\ ~HasUrl(res, data.url)

RECURSIVE ExtractItems_NoBreak(_, _, _)
ExtractItems_NoBreak(items, res, lim) ==
    IF items = <<>> THEN res
    ELSE LET data == Head(items) IN
         ExtractItems_NoBreak(Tail(items),
                      IF IsNew(res, data) THEN Append(res, data) ELSE res,
                      lim)

RECURSIVE ExtractItems_NoDedup(_, _, _)
ExtractItems_NoDedup(items, res, lim) ==
    IF items = <<>> THEN res
    ELSE IF Len(res) >= lim THEN res
    ELSE LET data == Head(items) IN
         ExtractItems_NoDedup(Tail(items),
                      IF data.url # "" THEN Append(res, data) ELSE res,
                      lim)

RECURSIVE ExtractItems_Prepend(_, _, _)
ExtractItems_Prepend(items, res, lim) ==
    IF items = <<>> THEN res
    ELSE IF Len(res) >= lim THEN res
    ELSE LET data == Head(items) IN
         ExtractItems_Prepend(Tail(items),
                      IF IsNew(res, data) THEN <<data>> \o res ELSE res,
                      lim)

RECURSIVE ExtractItems(_, _, _)
ExtractItems(items, res, lim) ==
    IF items = <<>> THEN res
    ELSE IF Len(res) >= lim THEN res
    ELSE LET data == Head(items) IN
         ExtractItems(Tail(items),
                      IF IsNew(res, data) THEN Append(res, data) ELSE res,
                      lim)

(***************************************************************************)
(* crawler_client.py:157-163: the stagnation counter after one scan.       *)
(***************************************************************************)
\* variant: the counter is never raised
NoNewItemsCount_Zero(res, prev, count) == 0

NoNewItemsCount_NoReset(res, prev, count) ==
    IF Len(res) = prev THEN count + 1 ELSE count

NoNewItemsCount(res, prev, count) ==
    IF Len(res) = prev THEN count + 1 ELSE 0

\* line 159: the break test
Stagnated_Late(count) == count > max_no_new_items

Stagnated(count) == count >= max_no_new_items

(***************************************************************************)
(* History bookkeeping.                                                    *)
(***************************************************************************)
RECURSIVE SeenAfter(_, _)
SeenAfter(seen, items) ==
    IF items = <<>> THEN seen
    ELSE LET u == Head(items).url IN
         SeenAfter(IF u # "" /\ \A i \in 1..Len(seen) : seen[i] # u
                   THEN Append(seen, u) ELSE seen,
                   Tail(items))

UrlsOf(res) == [i \in 1..Len(res) |-> res[i].url]

(***************************************************************************)
(* The parts of the state a specification does not exercise.               *)
(***************************************************************************)
\* no list crawl is running
ListIdle ==
    /\ strategy = "infinite_scroll"
    /\ limit = 0
    /\ lpc = "done"
    /\ page_open = FALSE
    /\ dom = <<>>
    /\ next_ctl = "absent"
    /\ results = <<>>
    /\ previous_count = 0
    /\ no_new_items_count = 0
    /\ page_num = 1
    /\ nav_results = <<>>
    /\ outcome = "returned"
    /\ firstSeen = <<>>
    /\ stagnant = 0
    /\ stop = "none"

\* no detail phase is running
DetailIdle ==
    /\ novels_basic = <<>>
    /\ overtook = FALSE
    /\ dpc = "idle"
    /\ batch_i = 1
    /\ task = <<>>
    /\ open_pages = {}
    /\ novels = <<>>

\* no crawl entry and no login is running
LoginIdle ==
    /\ platform = "kakao"
    /\ include_adult = FALSE
    /\ creds = FALSE
    /\ is_logged_in = FALSE
    /\ epc = "idle"
    /\ crawls = 0
    /\ lg_pc = "idle"
    /\ lg_page_open = FALSE
    /\ lg_steps = <<>>
    /\ lg_url_changed = FALSE
    /\ lg_pending = "none"
    /\ lg_result = "none"
    /\ login_ret = "none"
    /\ requested = "none"

\* no create_page call is made on the client
BrowserIdle ==
    /\ cl_playwright = 0
    /\ cl_browser = 0
    /\ cl_context = 0
    /\ caller = <<>>
    /\ launched = 0

\* deduplicate_novels is not applied
DedupIdle ==
    /\ dd_pc = "idle"
    /\ dd_in = <<>>
    /\ dd_once = <<>>
    /\ dd_twice = <<>>

\* merge_novel_lists is not applied
MergeIdle ==
    /\ mg_pc = "idle"
    /\ mg_lists = <<>>
    /\ mg_out = <<>>

\* normalize_novel_data is not applied
NormIdle ==
    /\ nz_pc = "idle"
    /\ nz_is_str = FALSE
    /\ nz_raw = <<>>
    /\ nz_out = <<>>

\* _extract_field is not applied
SelectIdle ==
    /\ se_pc = "idle"
    /\ se_element = <<>>
    /\ se_selector = ""
    /\ se_result = <<>>

\* no run resolves field selectors
ExtractIdle ==
    /\ ex_pc = "idle"
    /\ ex_items = <<>>
    /\ ex_field_selectors = <<>>
    /\ ex_i = 1
    /\ ex_f = 1
    /\ ex_data = <<>>
    /\ ex_results = <<>>
    /\ ex_ret = <<>>

\* the novels table as setup_schema leaves it, no add_novels call made
StoreIdle ==
    /\ db_rows = <<>>
    /\ db_next_id = 1
    /\ db_calls = 0
    /\ db_before = <<>>
    /\ db_batch = <<>>
    /\ db_outcome = "none"

\* crawl_all_platforms is not called
AllPlatformsIdle ==
    /\ ap_pc = "idle"
    /\ ap_save_to_db = FALSE
    /\ ap_i = 1
    /\ ap_all_novels = <<>>
    /\ ap_collected = <<>>
    /\ ap_saves = <<>>

\* extract_detail_page is not called
RevealIdle ==
    /\ rv_pc = "idle"
    /\ rv_tab_selector = ""
    /\ rv_field_selectors = {}
    /\ rv_tab = "missing"
    /\ rv_content = "base"
    /\ rv_page_open = FALSE
    /\ rv_clicked = FALSE
    /\ rv_settled = FALSE
    /\ rv_caught = FALSE
    /\ rv_failed = ""
    /\ rv_html = ""
    /\ rv_result = <<>>

\* crawl_multiple_genres is not called
GenresIdle ==
    /\ gn_pc = "idle"
    /\ gn_genres = <<>>
    /\ gn_i = 1
    /\ gn_all_novels = <<>>
    /\ gn_attempts = <<>>
    /\ gn_returned = <<>>
    /\ gn_raised = {}

\* no scan is counted
ScansIdle == sc_scans = 0

\* no CLI entry point is called
SaveIdle ==
    /\ sv_pc = "idle"
    /\ sv_entry = "crawl_platform"
    /\ sv_save_to_db = FALSE
    /\ sv_crawled = <<>>
    /\ sv_saved = <<>>

\* crawl_all is not called
CrawlAllIdle ==
    /\ ca_pc = "idle"
    /\ ca_max_pages = <<>>
    /\ ca_total_pages = 0
    /\ ca_pages_to_crawl = 0
    /\ ca_page = 1
    /\ ca_crawled = <<>>

\* fetch_page is not called
FetchPageIdle ==
    /\ fp_pc = "idle"
    /\ fp_max_retries = 0
    /\ fp_attempt = 0
    /\ fp_outcomes = <<>>
    /\ fp_waits = <<>>
    /\ fp_ret = "none"

\* none of the calls of the later groups is made
MoreIdle ==
    /\ MergeIdle
    /\ NormIdle
    /\ SelectIdle
    /\ ExtractIdle
    /\ StoreIdle
    /\ AllPlatformsIdle
    /\ RevealIdle
    /\ GenresIdle
    /\ ScansIdle
    /\ SaveIdle
    /\ CrawlAllIdle
    /\ FetchPageIdle

\* none of the calls of the first five groups is made
CoreIdle ==
    /\ ListIdle
    /\ DetailIdle
    /\ LoginIdle
    /\ BrowserIdle
    /\ DedupIdle

(***************************************************************************)
(* Initial state of a navigate_and_extract call.                           *)
(***************************************************************************)
InitList ==
    /\ MoreIdle
    /\ strategy \in Strategies
    /\ limit \in 0..MaxLimit
    /\ lpc = "create"
    /\ page_open = FALSE
    /\ dom = <<>>
    /\ next_ctl = "absent"
    /\ results = <<>>
    /\ previous_count = 0
    /\ no_new_items_count = 0
    /\ page_num = 1
    /\ nav_results = <<>>
    /\ outcome = "running"
    /\ firstSeen = <<>>
    /\ stagnant = 0
    /\ stop = "none"
    /\ DetailIdle
    /\ LoginIdle
    /\ BrowserIdle
    /\ DedupIdle

\* a navigation renders a page: any items, and for click pagination any
\* state of the next control (the scroll strategy never looks at it)
Rendered ==
    /\ dom' \in Doms
    /\ next_ctl' \in IF strategy = "pagination" THEN NextCtls ELSE {"absent"}

\* the while test of both loops (lines 134, 186), taken after entering or
\* after a scroll / click; leaving the loop returns results[:limit]
LoopOrReturn(res) ==
    IF Len(res) < limit
    THEN /\ lpc' = "scan"
         /\ UNCHANGED <<nav_results, stop>>
    ELSE /\ lpc' = "close"
         /\ nav_results' = Take(res, limit)
         /\ stop' = "limit"

\* a variant without the finally clause: the call ends where the exception
\* was caught
Propagate_NoFinally ==
    /\ lpc' = "done"
    /\ stop' = "error"
    /\ UNCHANGED nav_results

\* an exception that leaves _extract_with_* : caught at line 112, the outer
\* results keep their initial []
Propagate ==
    /\ lpc' = "close"
    /\ stop' = "error"
    /\ UNCHANGED nav_results

\* line 93: create_page, outside the try
CreatePage ==
    /\ UNCHANGED <<detailVars, loginVars, browserVars, dedupVars, moreVars>>
    /\ lpc = "create"
    /\ \/ /\ page_open' = TRUE
          /\ lpc' = "goto"
          /\ UNCHANGED outcome
       \/ /\ lpc' = "done"
          /\ outcome' = "raised"
          /\ UNCHANGED page_open
    /\ UNCHANGED <<strategy, limit, dom, next_ctl, results, previous_count,
                   no_new_items_count, page_num, nav_results, firstSeen,
                   stagnant, stop>>

\* lines 98-110: goto, sleep, enter the strategy's loop
Goto ==
    /\ UNCHANGED <<detailVars, loginVars, browserVars, dedupVars, moreVars>>
    /\ lpc = "goto"
    /\ \/ /\ Rendered
          /\ LoopOrReturn(<<>>)
       \/ /\ Propagate
          /\ UNCHANGED <<dom, next_ctl>>
    /\ UNCHANGED <<strategy, limit, page_open, results, previous_count,
                   no_new_items_count, page_num, outcome, firstSeen,
                   stagnant>>

\* history of one scan that took the results from res to res2; the count of
\* scans that added nothing is not carried beyond max_no_new_items + 1
ScanHistory(res, res2) ==
    /\ firstSeen' = SeenAfter(firstSeen, dom)
    /\ stagnant' = IF Len(res2) > Len(res) THEN 0
                   ELSE Min(stagnant + 1, max_no_new_items + 1)

\* lines 136-165: one scan of the infinite-scroll loop, on the variables of
\* the list run
ScrollScanStep ==
    /\ lpc = "scan"
    /\ strategy = "infinite_scroll"
    /\ \/ LET res == ExtractItems(dom, results, limit)
              cnt == NoNewItemsCount(res, previous_count, no_new_items_count)
          IN /\ results' = res
             /\ no_new_items_count' = cnt
             /\ ScanHistory(results, res)
             /\ IF Len(res) = previous_count /\ Stagnated(cnt)
                THEN /\ lpc' = "close"
                     /\ nav_results' = Take(res, limit)
                     /\ stop' = "stagnation"
                     /\ UNCHANGED previous_count
                ELSE /\ lpc' = "scroll"
                     /\ previous_count' = Len(res)
                     /\ UNCHANGED <<nav_results, stop>>
       \/ \* page.content() raises
          /\ Propagate
          /\ UNCHANGED <<results, no_new_items_count, previous_count,
                         firstSeen, stagnant>>
    /\ UNCHANGED <<strategy, limit, page_open, dom, next_ctl, page_num,
                   outcome>>

ScrollScan ==
    /\ ScrollScanStep
    /\ UNCHANGED <<detailVars, loginVars, browserVars, dedupVars, moreVars>>

\* lines 168-169 and the while test at 134
ScrollDown ==
    /\ UNCHANGED <<detailVars, loginVars, browserVars, dedupVars, moreVars>>
    /\ lpc = "scroll"
    /\ \/ /\ dom' \in Doms
          /\ LoopOrReturn(results)
       \/ \* page.evaluate raises
          /\ Propagate
          /\ UNCHANGED dom
    /\ UNCHANGED <<strategy, limit, page_open, next_ctl, results,
                   previous_count, no_new_items_count, page_num, outcome,
                   firstSeen, stagnant>>

\* variant: the scan of a page never ends the run
LimitReached_Never(res) == FALSE

\* lines 205-206: the break test after the scan of a page
LimitReached(res) == Len(res) >= limit

\* lines 190-206: one scan of the click-pagination loop
PageScan ==
    /\ UNCHANGED <<detailVars, loginVars, browserVars, dedupVars, moreVars>>
    /\ lpc = "scan"
    /\ strategy = "pagination"
    /\ \/ LET res == ExtractItems(dom, results, limit)
          IN /\ results' = res
             /\ ScanHistory(results, res)
             /\ IF LimitReached(res)
                THEN /\ lpc' = "close"
                     /\ nav_results' = Take(res, limit)
                     /\ stop' = "limit"
                ELSE /\ lpc' = "next"
                     /\ UNCHANGED <<nav_results, stop>>
       \/ \* page.content() raises
          /\ Propagate
          /\ UNCHANGED <<results, firstSeen, stagnant>>
    /\ UNCHANGED <<strategy, limit, page_open, dom, next_ctl, previous_count,
                   no_new_items_count, page_num, outcome>>

\* what the try block of lines 209-221 does with the next control:
\* "ok" the click and the wait went through, anything else ends the run
ClickOutcomes(ctl) ==
    IF ctl = "visible" THEN {"ok", "click_failed"} ELSE {"no_next"}

\* a failed click or wait: line 219-221 breaks
AfterClickFailure == "close"

\* a missing or invisible control: line 216-218 breaks
AfterNoNext_Continue == "scan"

AfterNoNext == "close"

\* lines 209-221 and the while test at 186
ClickNext ==
    /\ UNCHANGED <<detailVars, loginVars, browserVars, dedupVars, moreVars>>
    /\ lpc = "next"
    /\ \E o \in ClickOutcomes(next_ctl) :
         IF o = "ok"
         THEN /\ page_num < MaxPages
              /\ page_num' = page_num + 1
              /\ Rendered
              /\ LoopOrReturn(results)
         ELSE /\ lpc' = IF o = "no_next" THEN AfterNoNext
                        ELSE AfterClickFailure
              /\ stop' = o
              /\ nav_results' = IF lpc' = "close" THEN Take(results, limit)
                                ELSE nav_results
              /\ UNCHANGED <<page_num, dom, next_ctl>>
    /\ UNCHANGED <<strategy, limit, page_open, results, previous_count,
                   no_new_items_count, outcome, firstSeen, stagnant>>

\* lines 114-118: finally page.close(), then return results
ClosePage ==
    /\ UNCHANGED <<detailVars, loginVars, browserVars, dedupVars, moreVars>>
    /\ lpc = "close"
    /\ lpc' = "done"
    /\ \/ /\ page_open' = FALSE
          /\ outcome' = "returned"
       \/ \* page.close() raises: the page is gone already
          /\ page_open' = FALSE
          /\ outcome' = "raised"
    /\ UNCHANGED <<strategy, limit, dom, next_ctl, results, previous_count,
                   no_new_items_count, page_num, nav_results, firstSeen,
                   stagnant, stop>>

NextList ==
    \/ CreatePage
    \/ Goto
    \/ ScrollScan
    \/ ScrollDown
    \/ PageScan
    \/ ClickNext
    \/ ClosePage

SpecList == InitList /\ [][NextList]_vars


(***************************************************************************)
(* Properties of the list phase (checked under SpecList).                  *)
(***************************************************************************)
IsPrefix(s, t) == Len(s) <= Len(t) /\ SubSeq(t, 1, Len(s)) = s

Distinct(s) == \A i, j \in 1..Len(s) : i # j => s[i] # s[j]

\* the run has left the pagination loop
LoopEnded == lpc \in {"close", "done"} /\ stop # "none"

\* C1: with either strategy and any limit >= 0 the accumulated results never
\* hold more than limit items during the run, and neither does the list
\* navigate_and_extract returns.
C1_LimitNeverExceeded ==
    /\ Len(results) <= limit
    /\ Len(nav_results) <= limit

\* C1 witness: the run saw more different URLs than the limit allows and
\* returned exactly limit of them.
C1_Witness ==
    /\ outcome = "returned"
    /\ stop = "limit"
    /\ limit > 0
    /\ Len(firstSeen) > limit
    /\ Len(nav_results) = limit

\* every item of dom has no URL or a URL that is already collected
NothingNewIn(d, res) ==
    \A i \in 1..Len(d) : d[i].url = "" \/ HasUrl(res, d[i].url)

C2_UrlsDistinct ==
    /\ \A i \in 1..Len(results) : results[i].url # ""
    /\ Distinct(UrlsOf(results))
    /\ \A i \in 1..Len(nav_results) : nav_results[i].url # ""
    /\ Distinct(UrlsOf(nav_results))

\* C2: in every state of a pagination run the URLs of the accumulated results
\* are non-empty and pairwise distinct, and a scan of a page whose items all
\* have no URL or an already collected URL leaves the result list unchanged.
C2_EagerDedup ==
    /\ []C2_UrlsDistinct
    /\ [][(lpc = "scan" /\ NothingNewIn(dom, results)) => results' = results]_vars

\* C2 witness: the scan just performed saw an already collected URL and an
\* item without URL, and the results (still below the limit) did not grow.
C2_Witness ==
    /\ lpc \in {"scroll", "next"}
    /\ stagnant >= 1
    /\ Len(results) >= 1
    /\ Len(results) < limit
    /\ \E i, j \in 1..Len(dom) :
         /\ dom[i].url = ""
         /\ HasUrl(results, dom[j].url)

C3_DiscoveryOrder ==
    /\ IsPrefix(UrlsOf(results), firstSeen)
    /\ IsPrefix(UrlsOf(nav_results), firstSeen)
    /\ stop \in {"limit", "stagnation", "no_next", "click_failed"}
         => nav_results = results

\* C3: the results are in order of first discovery (the URLs of the results
\* are the first Len(results) URLs in order of first appearance over the
\* scanned pages), and a step only appends to the results, never reorders
\* or removes.
C3_FirstDiscoveryOrder ==
    /\ []C3_DiscoveryOrder
    /\ [][IsPrefix(results, results')]_vars

\* C3 witness: three items returned, the second from an earlier scan than
\* the third, and the last scanned page showed the first item again before
\* the third.
C3_Witness ==
    /\ outcome = "returned"
    /\ Len(nav_results) = 3
    /\ Len(dom) = 2
    /\ dom[1].url = nav_results[1].url
    /\ dom[2].url = nav_results[3].url

\* C4: an infinite-scroll run stops at the third consecutive scan that added
\* nothing, also below the limit: there is never a fourth such scan, and the
\* run returns what it has collected.
C4_StopsAtThirdStagnantScan ==
    strategy = "infinite_scroll" =>
        /\ stagnant <= 3
        /\ stagnant = 3 =>
             /\ lpc \in {"close", "done"}
             /\ stop = "stagnation"
             /\ nav_results = results

\* C4 witness: a run that ended by stagnation with some, but fewer than
\* limit, items.
C4_Witness ==
    /\ strategy = "infinite_scroll"
    /\ outcome = "returned"
    /\ stop = "stagnation"
    /\ stagnant = 3
    /\ Len(nav_results) >= 1
    /\ Len(nav_results) < limit

\* C5: the stagnation counter of an infinite-scroll run is the number of
\* latest consecutive scans that added nothing (a growing scan resets it to
\* zero), and a run that left its loop with fewer than limit items, without
\* an exception, did so only with three such scans.
C5_ToleratesOneOrTwoStagnantScans ==
    strategy = "infinite_scroll" =>
        /\ no_new_items_count = stagnant
        /\ (LoopEnded /\ stop # "error" /\ Len(results) < limit)
             => (stop = "stagnation" /\ stagnant = 3)
        /\ (lpc = "scroll" /\ Len(results) < limit) => stagnant < 3

\* C5 witness: after two consecutive scans that added nothing the run, below
\* its limit and with items collected earlier, goes on scrolling.
C5_Witness ==
    /\ strategy = "infinite_scroll"
    /\ lpc = "scroll"
    /\ stagnant = 2
    /\ Len(results) >= 1
    /\ Len(results) < limit

\* C6: a click-pagination run ends at the first scan after which the next
\* control is missing or invisible, or the click / the wait raises: the step
\* taken there leaves the loop without a further scan or click and returns
\* the results collected so far, cut to limit; once ended that way the run
\* never scans again.
C6_StopsWithoutNextControl ==
    /\ [](stop \in {"no_next", "click_failed"}
            => /\ lpc \in {"close", "done"}
               /\ nav_results = Take(results, limit))
    /\ [][(lpc = "next" /\ (next_ctl # "visible" \/ stop' = "click_failed"))
            => /\ lpc' = "close"
               /\ stop' \in {"no_next", "click_failed"}
               /\ nav_results' = Take(results, limit)
               /\ results' = results
               /\ page_num' = page_num]_vars

\* C6 witness: on the second or a later page the next control was invisible
\* and the run returned its items, fewer than the limit.
C6_Witness ==
    /\ strategy = "pagination"
    /\ outcome = "returned"
    /\ stop = "no_next"
    /\ next_ctl = "hidden"
    /\ page_num >= 2
    /\ Len(nav_results) >= 1
    /\ Len(nav_results) < limit

(***************************************************************************)
(* Detail phase: kakao.py:116-186 (crawl_all_novels) and 246-314           *)
(* (crawl_new_releases), with crawler_client.py:349-398.                   *)
(***************************************************************************)
BASE_URL == "https://page.kakao.com"
platform_name == "kakao_page"

\* python dict.get(k, default)
Get(d, k, default) == IF k \in DOMAIN d THEN d[k] ELSE default

\* python str.startswith for a one-character prefix
StartsWith(s, c) == Len(s) >= 1 /\ SubSeq(s, 1, 1) = c

\* python str.strip() of blanks
RECURSIVE LStrip(_)
LStrip(s) == IF StartsWith(s, " ") THEN LStrip(SubSeq(s, 2, Len(s))) ELSE s

RECURSIVE RStrip(_)
RStrip(s) ==
    IF Len(s) >= 1 /\ SubSeq(s, Len(s), Len(s)) = " "
    THEN RStrip(SubSeq(s, 1, Len(s) - 1)) ELSE s

Strip(s) == LStrip(RStrip(s))

\* python str.startswith
HasPrefix(s, p) == Len(s) >= Len(p) /\ SubSeq(s, 1, Len(p)) = p

\* a url page.goto can navigate to
IsAbsoluteUrl(u) == HasPrefix(u, "https://") \/ HasPrefix(u, "http://")

\* kakao.py:123-124: relative to absolute
DetailUrl(u) == IF StartsWith(u, "/") THEN BASE_URL \o u ELSE u

\* what resolving SELECTORS["detail"] on a rendered detail page yields
\* (crawler_client.py:390-391); span.font-small2-bold also matches texts
\* that are no keywords
FullDetail ==
    [genre |-> "webnovel", author |-> " author ", description |-> "plot ",
     keywords |-> <<"#game", "share", "#game ">>]

\* result = {} of extract_detail_page (crawler_client.py:366)
EmptyDetail == <<>>

\* the set of the elements of a list
Range(s) == {s[i] : i \in 1..Len(s)}

\* base.py:147-165 _extract_keywords for a list; list(set(...)) has no
\* defined order, the keywords are kept as the set
ExtractKeywords(keywords) == {k \in Range(keywords) : k # ""}

\* base.py:138-145 normalize_novel_data, given what _extract_keywords returned
normalize_novel_data(raw_data, keywords) ==
    [title |-> Strip(Get(raw_data, "title", "")),
     author |-> Strip(Get(raw_data, "author", "")),
     description |-> Strip(Get(raw_data, "description", "")),
     platform |-> platform_name,
     url |-> Strip(Get(raw_data, "url", "")),
     keywords |-> keywords]

\* normalize_novel_data of an item whose keywords are a list, the keywords
\* kept as the set
NormalizeNovelData(raw) ==
    normalize_novel_data(raw, ExtractKeywords(Get(raw, "keywords", <<>>)))

\* python [f(k) for k in s if c(k)]  with f = strip, c = strip starts with #
RECURSIVE HashKeywords(_)
HashKeywords(s) ==
    IF s = <<>> THEN <<>>
    ELSE (IF StartsWith(Strip(Head(s)), "#") THEN <<Strip(Head(s))>> ELSE <<>>)
         \o HashKeywords(Tail(s))

\* kakao.py:139-172: merge of the basic item and the detail data
MergeNovel(novel_basic, detail_url, detail_data) ==
    LET kw == HashKeywords(Get(detail_data, "keywords", <<>>))
        genre == Get(detail_data, "genre", "")
    IN NormalizeNovelData(
         [title |-> Get(novel_basic, "title", ""),
          author |-> Get(detail_data, "author", ""),
          description |-> Get(detail_data, "description", ""),
          url |-> detail_url,
          keywords |-> IF genre # "" THEN Append(kw, Strip(genre)) ELSE kw,
          platform |-> platform_name,
          genre |-> IF genre # "" THEN Strip(genre) ELSE ""])

\* kakao.py:173-175: what fetch_detail does with an exception that leaves
\* extract_detail_page: "none" returns None, "raise" would let it reach gather
OnFetchException_Propagate == "raise"

OnFetchException == "none"

\* kakao.py:180-181: the indices (from 1) of the batch starting at i
BatchOf_Rest(i) == i..Len(novels_basic)

BatchOf(i) == i..Min(i + batch_size - 1, Len(novels_basic))

\* kakao.py:182: await asyncio.gather(...) resumes when every task of the
\* batch has returned
GatherDone_First(b) == \E t \in b : task[t].pc = "done"

GatherDone(b) == \A t \in b : task[t].pc = "done"

\* the basic items a list phase can hand over: distinct non-empty URLs
BasicItems(n) == [i \in 1..n |-> [title |-> "title", url |-> UrlName(i)]]

\* exc records that an exception was raised inside the task (history)
NewTask == [pc |-> "pending", data |-> EmptyDetail, ret |-> <<>>, exc |-> FALSE]

InitDetail ==
    /\ MoreIdle
    /\ ListIdle
    /\ LoginIdle
    /\ BrowserIdle
    /\ DedupIdle
    /\ \E n \in 0..MaxItems : novels_basic = BasicItems(n)
    /\ overtook = FALSE
    /\ dpc = "loop"
    /\ batch_i = 1
    /\ task = [i \in 1..Len(novels_basic) |-> NewTask]
    /\ open_pages = {}
    /\ novels = <<>>

\* kakao.py:180-182: take the next batch and start its coroutines
StartBatch ==
    /\ dpc = "loop"
    /\ batch_i <= Len(novels_basic)
    /\ task' = [t \in DOMAIN task |->
                  IF t \in BatchOf(batch_i) /\ task[t].pc = "pending"
                  THEN [task[t] EXCEPT !.pc = "start"] ELSE task[t]]
    /\ dpc' = "gather"
    /\ UNCHANGED <<novels_basic, overtook, batch_i, open_pages, novels>>
    /\ UNCHANGED <<listVars, loginVars, browserVars, dedupVars, moreVars>>

\* an exception leaves extract_detail_page in task t
Excepted(t) ==
    /\ task' = [task EXCEPT ![t].pc = "done", ![t].ret = <<>>, ![t].exc = TRUE]
    /\ dpc' = IF OnFetchException = "none" THEN dpc ELSE "raised"

\* kakao.py:118-127 and crawler_client.py:365: fetch_detail starts and
\* extract_detail_page creates its page
TaskOpen(t) ==
    /\ dpc = "gather"
    /\ task[t].pc = "start"
    /\ IF novels_basic[t].url = ""
       THEN /\ task' = [task EXCEPT ![t].pc = "done", ![t].ret = <<>>]
            /\ UNCHANGED <<dpc, open_pages>>
       ELSE \/ /\ task' = [task EXCEPT ![t].pc = "goto"]
               /\ open_pages' = open_pages \cup {t}
               /\ UNCHANGED dpc
            \/ \* create_page raises
               /\ Excepted(t)
               /\ UNCHANGED open_pages
    /\ UNCHANGED <<novels_basic, overtook, batch_i, novels>>
    /\ UNCHANGED <<listVars, loginVars, browserVars, dedupVars, moreVars>>

\* crawler_client.py:369-370: goto; an exception is caught at line 393.
\* The browser navigates to an absolute url only, any other raises.
TaskGoto(t) ==
    /\ dpc = "gather"
    /\ task[t].pc = "goto"
    /\ \/ /\ IsAbsoluteUrl(DetailUrl(novels_basic[t].url))
          /\ task' = [task EXCEPT ![t].pc = "reveal"]
       \/ task' = [task EXCEPT ![t].pc = "close", ![t].exc = TRUE]
    /\ UNCHANGED <<novels_basic, overtook, dpc, batch_i, open_pages, novels>>
    /\ UNCHANGED <<listVars, loginVars, browserVars, dedupVars, moreVars>>

\* crawler_client.py:373-385: the tab block; found or not, clicked or
\* raising, the call goes on to the extraction
TaskReveal(t) ==
    /\ dpc = "gather"
    /\ task[t].pc = "reveal"
    /\ task' = [task EXCEPT ![t].pc = "extract"]
    /\ UNCHANGED <<novels_basic, overtook, dpc, batch_i, open_pages, novels>>
    /\ UNCHANGED <<listVars, loginVars, browserVars, dedupVars, moreVars>>

\* crawler_client.py:387-394: read the markup and resolve the fields; an
\* exception of page.content() is caught at line 393
TaskExtract(t) ==
    /\ dpc = "gather"
    /\ task[t].pc = "extract"
    /\ \/ task' = [task EXCEPT ![t].pc = "close", ![t].data = FullDetail]
       \/ task' = [task EXCEPT ![t].pc = "close", ![t].exc = TRUE]
    /\ UNCHANGED <<novels_basic, overtook, dpc, batch_i, open_pages, novels>>
    /\ UNCHANGED <<listVars, loginVars, browserVars, dedupVars, moreVars>>

\* a later item of the running batch has returned its entity while the fetch
\* of item t has not returned yet
Overtaken(t) ==
    \E u \in BatchOf(batch_i) :
        u > t /\ task[u].pc = "done" /\ task[u].ret # <<>>

\* crawler_client.py:395-398 and kakao.py:136-175: the page is closed, the
\* detail data returned and merged.  A close() that raises has lost its page
\* already (the target is gone); its exception reaches fetch_detail.
TaskClose(t) ==
    /\ dpc = "gather"
    /\ task[t].pc = "close"
    /\ open_pages' = open_pages \ {t}
    /\ \/ /\ task' = [task EXCEPT
                        ![t].pc = "done",
                        ![t].ret = <<MergeNovel(novels_basic[t],
                                                DetailUrl(novels_basic[t].url),
                                                task[t].data)>>]
          /\ overtook' = (overtook \/ Overtaken(t))
          /\ UNCHANGED dpc
       \/ /\ Excepted(t)
          /\ UNCHANGED overtook
    /\ UNCHANGED <<novels_basic, batch_i, novels>>
    /\ UNCHANGED <<listVars, loginVars, browserVars, dedupVars, moreVars>>

\* variant: the results of a batch taken from its last coroutine to its first
RECURSIVE NotNone_Reversed(_, _)
NotNone_Reversed(i, j) ==
    IF i > j THEN <<>> ELSE NotNone_Reversed(i + 1, j) \o task[i].ret

\* python  [novel for novel in batch_results if novel is not None]
RECURSIVE NotNone(_, _)
NotNone(i, j) ==
    IF i > j THEN <<>> ELSE task[i].ret \o NotNone(i + 1, j)

\* kakao.py:182-183: gather returns, the entities of the batch are appended
BatchDone ==
    /\ dpc = "gather"
    /\ BatchOf(batch_i) # {}
    /\ GatherDone(BatchOf(batch_i))
    /\ novels' = novels \o NotNone(batch_i, Min(batch_i + batch_size - 1,
                                                Len(novels_basic)))
    /\ batch_i' = batch_i + batch_size
    /\ dpc' = "loop"
    /\ UNCHANGED <<novels_basic, overtook, task, open_pages>>
    /\ UNCHANGED <<listVars, loginVars, browserVars, dedupVars, moreVars>>

\* kakao.py:185-186: log_crawl_summary, return novels
Finish ==
    /\ dpc = "loop"
    /\ batch_i > Len(novels_basic)
    /\ dpc' = "done"
    /\ UNCHANGED <<novels_basic, overtook, batch_i, task, open_pages, novels>>
    /\ UNCHANGED <<listVars, loginVars, browserVars, dedupVars, moreVars>>

NextDetail ==
    \/ StartBatch
    \/ \E t \in DOMAIN task : TaskOpen(t)
    \/ \E t \in DOMAIN task : TaskGoto(t)
    \/ \E t \in DOMAIN task : TaskReveal(t)
    \/ \E t \in DOMAIN task : TaskExtract(t)
    \/ \E t \in DOMAIN task : TaskClose(t)
    \/ BatchDone
    \/ Finish

SpecDetail == InitDetail /\ [][NextDetail]_vars

(***************************************************************************)
(* The same detail phase for few basic items whose urls are of every kind  *)
(* an href of a list item can have.                                        *)
(***************************************************************************)
\* kakao.py:26, 33: hrefs matched by a.cursor-pointer[href*='/content/']:
\* root-relative, absolute, relative without a leading slash
ListUrls == {"/content/1", "https://page.kakao.com/content/2", "series/content/3"}

\* the lists a list phase can return: non-empty, pairwise different urls
FetchInputs ==
    {s \in SeqsUpTo([title : {"title"}, url : ListUrls], MaxFetchItems) :
        \A i, j \in 1..Len(s) : i # j => s[i].url # s[j].url}

InitFetch ==
    /\ MoreIdle
    /\ ListIdle
    /\ LoginIdle
    /\ BrowserIdle
    /\ DedupIdle
    /\ novels_basic \in FetchInputs
    /\ overtook = FALSE
    /\ dpc = "loop"
    /\ batch_i = 1
    /\ task = [i \in 1..Len(novels_basic) |-> NewTask]
    /\ open_pages = {}
    /\ novels = <<>>

SpecFetch == InitFetch /\ [][NextDetail]_vars

(***************************************************************************)
(* Properties of the detail phase (checked under SpecDetail).              *)
(***************************************************************************)
\* tasks whose coroutine is between opening and closing its detail page
InFlight == {t \in DOMAIN task : task[t].pc \in {"goto", "reveal", "extract", "close"}}

\* the batch (from 0) basic item t belongs to
BatchNo(t) == (t - 1) \div 5

\* the fetch of item t ran to its end without any exception
Succeeded(t) == task[t].pc = "done" /\ ~task[t].exc

\* positions of the entities of a url in the crawl result
EntitiesOf(u) == {j \in 1..Len(novels) : novels[j].url = u}

\* C7: during the detail phase never more than 5 detail pages are open or
\* being navigated at the same time, for any number of basic items and any
\* interleaving of the fetches.
C7_AtMostBatchSizePages ==
    /\ Cardinality(open_pages) <= 5
    /\ Cardinality(InFlight) <= 5

\* C7 witness: five detail pages open at once in a crawl of more than five
\* basic items.
C7_Witness ==
    /\ Len(novels_basic) > 5
    /\ Cardinality(open_pages) = 5
    /\ InFlight = open_pages

\* C8: no fetch of a later batch has started while a fetch of an earlier
\* batch has not finished.
C8_BatchesSequential ==
    \A t, u \in DOMAIN task :
        (BatchNo(t) < BatchNo(u) /\ task[u].pc # "pending")
            => task[t].pc = "done"

\* C8 witness: two fetches of the second batch in flight at different
\* positions, after a first batch in which a fetch failed.
C8_Witness ==
    /\ Len(novels_basic) >= 7
    /\ task[6].pc = "extract"
    /\ task[7].pc = "goto"
    /\ task[1].exc
    /\ \A t \in 1..5 : task[t].pc = "done"

\* C9 (as claimed): an item whose navigation or extraction raised yields
\* None and is absent from the crawl result.
C9_FailedFetchDropped ==
    \A t \in DOMAIN task :
        (task[t].pc = "done" /\ task[t].exc)
            => /\ task[t].ret = <<>>
               /\ EntitiesOf(DetailUrl(novels_basic[t].url)) = {}

\* C10: a failing fetch never aborts the crawl, and in the result of the
\* crawl every basic item whose own fetch succeeded has exactly one entity
\* (with its enrichment), whatever happened to the others; without any
\* failing fetch there is exactly one entity per basic item.
C10_FailuresIsolated ==
    /\ dpc # "raised"
    /\ dpc = "done" =>
         /\ \A t \in DOMAIN task : task[t].pc = "done"
         /\ \A t \in DOMAIN task :
              Succeeded(t) =>
                /\ Cardinality(EntitiesOf(DetailUrl(novels_basic[t].url))) = 1
                /\ \A j \in EntitiesOf(DetailUrl(novels_basic[t].url)) :
                     novels[j].author = "author"
         /\ (\A t \in DOMAIN task : Succeeded(t))
              => Len(novels) = Len(novels_basic)

\* C10 witness: a finished crawl of seven items in which a fetch of each
\* batch was lost to an exception while others of both batches succeeded.
C10_Witness ==
    /\ dpc = "done"
    /\ Len(novels_basic) = 7
    /\ task[1].exc /\ task[1].ret = <<>>
    /\ Succeeded(2)
    /\ task[6].exc /\ task[6].ret = <<>>
    /\ Succeeded(7)
    /\ Len(novels) = 5

\* the position in the list phase's result of the basic item an entity was
\* made from
DiscoveryIndex(n) ==
    CHOOSE t \in DOMAIN novels_basic : DetailUrl(novels_basic[t].url) = n.url

\* C29: the entities returned by the two-phase crawl are in list-phase
\* discovery order with the dropped items removed, across batches and inside
\* a batch, whatever order the concurrent fetches of a batch complete in.
C29_DiscoveryOrderKept ==
    /\ \A j, k \in 1..Len(novels) :
          j < k => DiscoveryIndex(novels[j]) < DiscoveryIndex(novels[k])
    /\ \A j \in 1..Len(novels) :
          task[DiscoveryIndex(novels[j])].ret = <<novels[j]>>
    /\ dpc = "done" =>
          Len(novels) = Cardinality({t \in DOMAIN task : task[t].ret # <<>>})

\* C29 witness: a finished crawl of seven items, one of them dropped, in
\* which a fetch returned its entity after a later fetch of its batch had.
C29_Witness ==
    /\ dpc = "done"
    /\ Len(novels_basic) = 7
    /\ overtook
    /\ task[3].ret = <<>>
    /\ Len(novels) = 6

(***************************************************************************)
(* Properties of the detail phase over every kind of url (SpecFetch).      *)
(***************************************************************************)
\* C11 (as claimed): every entity the two-phase crawl has collected has a
\* non-empty absolute url, whether the list phase extracted an absolute, a
\* root-relative or a slash-less relative url.
C11_EntityUrlAbsolute ==
    \A j \in 1..Len(novels) :
        novels[j].url # "" /\ IsAbsoluteUrl(novels[j].url)

(***************************************************************************)
(* crawl_all_novels entry (kakao.py:77-85, naver.py:73-80), the crawler's   *)
(* login() (kakao.py:316-344, naver.py:255-274) and                         *)
(* CrawlerClient.login_to_site (crawler_client.py:401-445).                 *)
(***************************************************************************)

\* the browser steps of login_to_site in the order the code awaits them
LoginOrder == <<"goto", "fill_username", "fill_password", "click", "wait">>

\* position after a step that completed: the next await, or the url check
AfterStep(step) ==
    CASE step = "goto"          -> "fill_username"
      [] step = "fill_username" -> "fill_password"
      [] step = "fill_password" -> "click"
      [] step = "click"         -> "wait"
      [] step = "wait"          -> "judge"

\* a variant that reports success whatever the url is
LoginSuccess_Always(current_url_changed) == TRUE

\* success = current_url != url
LoginSuccess(current_url_changed) == current_url_changed

\* a variant of login() without its except clause
LoginOnException_Propagate == "raised"

\* except Exception: return False
LoginOnException == "false"

\* what the crawl asks the platform for: the Naver task prompt carries the
\* include_adult choice, the Kakao list navigation has no such option
Request(p, adult) ==
    IF p = "naver" THEN (IF adult THEN "adult" ELSE "no_adult") ELSE "list"

BoolStr(b) == IF b THEN "true" ELSE "false"

\* a crawler that was just constructed, about to receive its first crawl call
InitLogin ==
    /\ MoreIdle
    /\ ListIdle
    /\ DetailIdle
    /\ BrowserIdle
    /\ DedupIdle
    /\ platform \in {"kakao", "naver"}
    /\ include_adult \in BOOLEAN
    /\ creds \in BOOLEAN
    /\ is_logged_in = FALSE
    /\ epc = "entry"
    /\ crawls = 1
    /\ lg_pc = "idle"
    /\ lg_page_open = FALSE
    /\ lg_steps = <<>>
    /\ lg_url_changed = FALSE
    /\ lg_pending = "none"
    /\ lg_result = "none"
    /\ login_ret = "none"
    /\ requested = "none"

\* variant: the session flag is not looked at
NeedsLogin_Adult(adult, logged_in) == adult

\* kakao.py:79, naver.py:74: if include_adult and not self.is_logged_in
NeedsLogin(adult, logged_in) == adult /\ ~logged_in

\* if include_adult and not self.is_logged_in: ... (the login check of the entry)
Entry ==
    /\ epc = "entry"
    /\ IF NeedsLogin(include_adult, is_logged_in)
       THEN IF creds
            THEN /\ epc' = "login"
                 /\ lg_pc' = "create"
                 /\ UNCHANGED include_adult
            ELSE /\ include_adult' = FALSE
                 /\ epc' = "crawl"
                 /\ UNCHANGED lg_pc
       ELSE /\ epc' = "crawl"
            /\ UNCHANGED <<include_adult, lg_pc>>
    /\ UNCHANGED <<platform, creds, is_logged_in, crawls, lg_page_open, lg_steps,
                   lg_url_changed, lg_pending, lg_result, login_ret, requested>>
    /\ UNCHANGED <<listVars, detailVars, browserVars, dedupVars, moreVars>>

\* page = await self.create_page(), before the try block
LoginCreatePage ==
    /\ lg_pc = "create"
    /\ \/ /\ lg_page_open' = TRUE
          /\ lg_pc' = "goto"
          /\ UNCHANGED lg_result
       \/ \* the browser cannot give a page: nothing is caught here
          /\ lg_result' = "raised"
          /\ lg_pc' = "done"
          /\ UNCHANGED lg_page_open
    /\ UNCHANGED <<platform, include_adult, creds, is_logged_in, epc, crawls,
                   lg_steps, lg_url_changed, lg_pending, login_ret, requested>>
    /\ UNCHANGED <<listVars, detailVars, browserVars, dedupVars, moreVars>>

\* one awaited browser step inside the try block
LoginStep ==
    /\ lg_pc \in Range(LoginOrder)
    /\ \/ \* the step completes
          /\ lg_steps' = Append(lg_steps, lg_pc)
          /\ lg_pc' = AfterStep(lg_pc)
          /\ IF lg_pc = "wait"
             THEN lg_url_changed' \in BOOLEAN
             ELSE UNCHANGED lg_url_changed
          /\ UNCHANGED lg_pending
       \/ \* the step raises: except Exception -> return False
          /\ lg_pending' = "false"
          /\ lg_pc' = "close"
          /\ UNCHANGED <<lg_steps, lg_url_changed>>
    /\ UNCHANGED <<platform, include_adult, creds, is_logged_in, epc, crawls,
                   lg_page_open, lg_result, login_ret, requested>>
    /\ UNCHANGED <<listVars, detailVars, browserVars, dedupVars, moreVars>>

\* current_url = page.url; success = current_url != url; return success
LoginJudge ==
    /\ lg_pc = "judge"
    /\ lg_pending' = BoolStr(LoginSuccess(lg_url_changed))
    /\ lg_pc' = "close"
    /\ UNCHANGED <<platform, include_adult, creds, is_logged_in, epc, crawls,
                   lg_page_open, lg_steps, lg_url_changed, lg_result, login_ret,
                   requested>>
    /\ UNCHANGED <<listVars, detailVars, browserVars, dedupVars, moreVars>>

\* finally: await page.close()
LoginClosePage ==
    /\ lg_pc = "close"
    /\ lg_page_open' = FALSE
    /\ lg_pc' = "done"
    /\ \/ lg_result' = lg_pending
       \/ \* page.close() raises and replaces the pending return
          lg_result' = "raised"
    /\ UNCHANGED <<platform, include_adult, creds, is_logged_in, epc, crawls,
                   lg_steps, lg_url_changed, lg_pending, login_ret, requested>>
    /\ UNCHANGED <<listVars, detailVars, browserVars, dedupVars, moreVars>>

\* login(): self.is_logged_in = success; return success / except: return False
LoginReturn ==
    /\ epc = "login"
    /\ lg_pc = "done"
    /\ IF lg_result = "raised"
       THEN /\ login_ret' = LoginOnException
            /\ UNCHANGED is_logged_in
       ELSE /\ is_logged_in' = (lg_result = "true")
            /\ login_ret' = lg_result
    /\ epc' = IF login_ret' = "raised" THEN "raised" ELSE "crawl"
    /\ UNCHANGED <<platform, include_adult, creds, crawls, lg_pc, lg_page_open,
                   lg_steps, lg_url_changed, lg_pending, lg_result, requested>>
    /\ UNCHANGED <<listVars, detailVars, browserVars, dedupVars, moreVars>>

\* the crawl itself: the list navigation (Kakao) or the task prompt (Naver)
CrawlRequest ==
    /\ epc = "crawl"
    /\ requested' = Request(platform, include_adult)
    /\ epc' = "done"
    /\ UNCHANGED <<platform, include_adult, creds, is_logged_in, crawls, lg_pc,
                   lg_page_open, lg_steps, lg_url_changed, lg_pending, lg_result,
                   login_ret>>
    /\ UNCHANGED <<listVars, detailVars, browserVars, dedupVars, moreVars>>

\* the same crawler object receives another crawl call
NextCrawl ==
    /\ epc \in {"done", "raised"}
    /\ crawls < MaxCrawls
    /\ crawls' = crawls + 1
    /\ include_adult' \in BOOLEAN
    /\ epc' = "entry"
    /\ lg_pc' = "idle"
    /\ lg_steps' = <<>>
    /\ lg_url_changed' = FALSE
    /\ lg_pending' = "none"
    /\ lg_result' = "none"
    /\ login_ret' = "none"
    /\ requested' = "none"
    /\ UNCHANGED <<platform, creds, is_logged_in, lg_page_open>>
    /\ UNCHANGED <<listVars, detailVars, browserVars, dedupVars, moreVars>>

NextLogin ==
    \/ Entry
    \/ LoginCreatePage
    \/ LoginStep
    \/ LoginJudge
    \/ LoginClosePage
    \/ LoginReturn
    \/ CrawlRequest
    \/ NextCrawl

SpecLogin == InitLogin /\ [][NextLogin]_vars

(***************************************************************************)
(* The three page-opening calls of the client side by side: a list          *)
(* navigation, a two-phase detail crawl, or a crawl entry with its login.   *)
(***************************************************************************)
InitPages == InitList \/ InitFetch \/ InitLogin

NextPages == NextList \/ NextDetail \/ NextLogin

SpecPages == InitPages /\ [][NextPages]_vars

\* C12: every page opened by navigate_and_extract, by a detail fetch or by
\* login_to_site is closed when that call has ended, whether it returned a
\* value or ended on a navigation, extraction or tab-click error; once the
\* crawl has completed no page is open.
C12_PagesClosedOnReturn ==
    /\ lpc = "done" => ~page_open
    /\ \A t \in 1..Len(task) : task[t].pc = "done" => t \notin open_pages
    /\ dpc = "done" => open_pages = {}
    /\ lg_pc = "done" => ~lg_page_open
    /\ epc \in {"crawl", "done", "raised"} => ~lg_page_open

\* a detail fetch whose navigation failed has ended with its page closed
C12_Witness ==
    /\ dpc = "done"
    /\ open_pages = {}
    /\ \E t \in 1..Len(task) : task[t].exc /\ task[t].pc = "done"

(***************************************************************************)
(* CrawlerClient._ensure_browser / create_page / close                      *)
(* (crawler_client.py:29-57) under concurrent create_page calls.  Every     *)
(* await is a point where another call may run.                             *)
(***************************************************************************)
Callers == 1..NCallers

NewCaller == [pc |-> "idle", b |-> 0, ctx |-> 0]

\* a client that was just constructed (or closed), with NCallers create_page
\* calls about to be made on it
InitBrowser ==
    /\ MoreIdle
    /\ ListIdle
    /\ DetailIdle
    /\ LoginIdle
    /\ DedupIdle
    /\ cl_playwright = 0
    /\ cl_browser = 0
    /\ cl_context = 0
    /\ caller = [c \in Callers |-> NewCaller]
    /\ launched = 0

\* create_page enters _ensure_browser and runs up to its first await:
\* line 31 tests self.browser; when it is set, line 44 reads self.context
EnsureBrowser(c) ==
    /\ caller[c].pc = "idle"
    /\ caller' = [caller EXCEPT ![c] =
                    IF cl_browser = 0
                    THEN [@ EXCEPT !.pc = "start"]
                    ELSE IF cl_context = 0
                         THEN [@ EXCEPT !.pc = "attribute_error"]
                         ELSE [@ EXCEPT !.pc = "new_page", !.ctx = cl_context]]
    /\ UNCHANGED <<cl_playwright, cl_browser, cl_context, launched>>
    /\ UNCHANGED <<listVars, detailVars, loginVars, dedupVars, moreVars>>

\* line 32 resumes: self._playwright_context is assigned, launch is awaited
PlaywrightStarted(c) ==
    /\ caller[c].pc = "start"
    /\ cl_playwright' = c
    /\ caller' = [caller EXCEPT ![c].pc = "launch"]
    /\ UNCHANGED <<cl_browser, cl_context, launched>>
    /\ UNCHANGED <<listVars, detailVars, loginVars, dedupVars, moreVars>>

\* line 33 resumes: a browser was launched and is assigned to self.browser;
\* new_context is awaited on it
BrowserLaunched(c) ==
    /\ caller[c].pc = "launch"
    /\ launched' = launched + 1
    /\ cl_browser' = launched + 1
    /\ caller' = [caller EXCEPT ![c].pc = "context", ![c].b = launched + 1]
    /\ UNCHANGED <<cl_playwright, cl_context>>
    /\ UNCHANGED <<listVars, detailVars, loginVars, dedupVars, moreVars>>

\* line 36 resumes: self.context is assigned; _ensure_browser returns and
\* line 44 awaits self.context.new_page()
ContextCreated(c) ==
    /\ caller[c].pc = "context"
    /\ cl_context' = caller[c].b
    /\ caller' = [caller EXCEPT ![c].pc = "new_page", ![c].ctx = caller[c].b]
    /\ UNCHANGED <<cl_playwright, cl_browser, launched>>
    /\ UNCHANGED <<listVars, detailVars, loginVars, dedupVars, moreVars>>

\* line 44 resumes: create_page returns its page
PageCreated(c) ==
    /\ caller[c].pc = "new_page"
    /\ caller' = [caller EXCEPT ![c].pc = "done"]
    /\ UNCHANGED <<cl_playwright, cl_browser, cl_context, launched>>
    /\ UNCHANGED <<listVars, detailVars, loginVars, dedupVars, moreVars>>

\* a create_page call has ended, by returning a page or by raising
Ended(c) == caller[c].pc \in {"done", "attribute_error"}

\* lines 46-57: close(), called when no create_page call is in flight; the
\* client is then used again
Close ==
    /\ \A c \in Callers : Ended(c)
    /\ cl_context' = 0
    /\ cl_browser' = 0
    /\ cl_playwright' = 0
    /\ launched' = 0
    /\ caller' = [c \in Callers |-> NewCaller]
    /\ UNCHANGED <<listVars, detailVars, loginVars, dedupVars, moreVars>>

NextBrowser ==
    \/ \E c \in Callers : EnsureBrowser(c)
    \/ \E c \in Callers : PlaywrightStarted(c)
    \/ \E c \in Callers : BrowserLaunched(c)
    \/ \E c \in Callers : ContextCreated(c)
    \/ \E c \in Callers : PageCreated(c)
    \/ Close

SpecBrowser == InitBrowser /\ [][NextBrowser]_vars

\* C13 (as claimed): between two close() calls the client launches its
\* browser at most once, whatever the interleaving of concurrent create_page
\* calls on a client that is not initialised yet.
C13_OneLaunchPerClose == launched <= 1

\* C14 (as claimed): no create_page call sees the browser set while the
\* context is still unset and fails; every page returned belongs to a
\* context that was created.
C14_CreatePageSafe ==
    \A c \in Callers :
        /\ caller[c].pc # "attribute_error"
        /\ caller[c].pc = "done" => caller[c].ctx # 0

\* C15: login_to_site performs navigate, fill identifier, fill password,
\* submit, wait in that order; when it returns, it returns true exactly when
\* all five steps completed and the url after settling differs from the
\* login url, and false when the url is unchanged.
C15_LoginResult ==
    /\ IsPrefix(lg_steps, LoginOrder)
    /\ lg_result = "true" => (lg_steps = LoginOrder /\ lg_url_changed)
    /\ (lg_result \in {"true", "false"} /\ lg_steps = LoginOrder /\ lg_url_changed)
          => lg_result = "true"
    /\ (lg_result \in {"true", "false"} /\ ~lg_url_changed) => lg_result = "false"

\* a login_to_site call that completed every step, saw the url change and
\* returned true
C15_Witness ==
    /\ lg_pc = "done"
    /\ lg_result = "true"
    /\ lg_steps = LoginOrder
    /\ lg_url_changed

\* C16: the crawler's login() never raises to the crawl entry; when opening
\* the page, navigating, filling, submitting or waiting failed it returned
\* false, and it returned true only when login_to_site returned true.
C16_LoginNeverRaises ==
    /\ login_ret # "raised"
    /\ epc # "raised"
    /\ login_ret = "true" => lg_result = "true"
    /\ (login_ret # "none" /\ lg_steps # LoginOrder) => login_ret = "false"
    /\ (login_ret # "none" /\ lg_result = "raised") => login_ret = "false"

\* login() returned false after login_to_site raised because no page could
\* be opened
C16_Witness ==
    /\ login_ret = "false"
    /\ lg_result = "raised"
    /\ lg_steps = <<>>
    /\ ~lg_page_open

\* C17 (as claimed): a crawl whose login attempt returned false does not go
\* on to ask the platform for adult content.
C17_NoAdultAfterFailedLogin ==
    (epc = "done" /\ login_ret = "false") => requested # "adult"

(***************************************************************************)
(* deduplicate_novels (utils.py:39-67), applied to a list and once more to  *)
(* its own result.                                                          *)
(***************************************************************************)
\* python str.lower() letter by letter
LowerMap ==
    [A |-> "a", B |-> "b", C |-> "c", D |-> "d", E |-> "e", F |-> "f",
     G |-> "g", H |-> "h", I |-> "i", J |-> "j", K |-> "k", L |-> "l",
     M |-> "m", N |-> "n", O |-> "o", P |-> "p", Q |-> "q", R |-> "r",
     S |-> "s", T |-> "t", U |-> "u", V |-> "v", W |-> "w", X |-> "x",
     Y |-> "y", Z |-> "z"]

\* python str.lower() of one character
LowerChar(c) == IF c \in DOMAIN LowerMap THEN LowerMap[c] ELSE c

\* python str.lower()
RECURSIVE Lower(_)
Lower(s) ==
    IF Len(s) = 0 THEN s
    ELSE LowerChar(SubSeq(s, 1, 1)) \o Lower(SubSeq(s, 2, Len(s)))

\* a variant of the key that compares titles and authors as written
DedupKey_Raw(novel) ==
    <<Get(novel, "title", ""), Get(novel, "author", "")>>

\* utils.py:55-58: the key of a novel
DedupKey(novel) ==
    <<Strip(Lower(Get(novel, "title", ""))), Strip(Lower(Get(novel, "author", "")))>>

\* utils.py:60: the novel is kept
DedupKeeps(seen, key) == key \notin seen /\ key[1] # "" /\ key[2] # ""

\* a variant that forgets the keys it has seen when it meets a novel it
\* does not keep
DedupSeen_Forget(seen, key) ==
    IF DedupKeeps(seen, key) THEN seen \cup {key} ELSE {}

\* utils.py:60-61: seen after the novel was looked at
DedupSeen(seen, key) ==
    IF DedupKeeps(seen, key) THEN seen \cup {key} ELSE seen

\* utils.py:52-62: the loop over novels
RECURSIVE DedupLoop(_, _, _)
DedupLoop(rest, seen, unique_novels) ==
    IF rest = <<>> THEN unique_novels
    ELSE LET novel == Head(rest)
             key == DedupKey(novel)
         IN  DedupLoop(Tail(rest),
                       DedupSeen(seen, key),
                       IF DedupKeeps(seen, key)
                       THEN Append(unique_novels, novel)
                       ELSE unique_novels)

deduplicate_novels(ns) == DedupLoop(ns, {}, <<>>)

\* titles that differ in case and surrounding blanks only or are empty,
\* authors that differ or are blank; the description tells entities apart
Titles == {"Ab", " ab", ""}

Authors == {"Kim", "lee ", " "}

Novels == [title : Titles, author : Authors, description : {"d1", "d2"}]

InitDedup ==
    /\ MoreIdle
    /\ ListIdle
    /\ DetailIdle
    /\ LoginIdle
    /\ BrowserIdle
    /\ dd_pc = "input"
    /\ dd_in \in SeqsUpTo(Novels, MaxDedupLen)
    /\ dd_once = <<>>
    /\ dd_twice = <<>>

\* deduplicate_novels(X)
DedupOnce ==
    /\ dd_pc = "input"
    /\ dd_once' = deduplicate_novels(dd_in)
    /\ dd_pc' = "once"
    /\ UNCHANGED <<dd_in, dd_twice>>
    /\ UNCHANGED <<listVars, detailVars, loginVars, browserVars, moreVars>>

\* deduplicate_novels(deduplicate_novels(X))
DedupTwice ==
    /\ dd_pc = "once"
    /\ dd_twice' = deduplicate_novels(dd_once)
    /\ dd_pc' = "twice"
    /\ UNCHANGED <<dd_in, dd_once>>
    /\ UNCHANGED <<listVars, detailVars, loginVars, browserVars, moreVars>>

NextDedup == DedupOnce \/ DedupTwice

SpecDedup == InitDedup /\ [][NextDedup]_vars

\* the lower-cased, trimmed (title, author) pair of an entity
KeyOf(e) == <<Strip(Lower(e.title)), Strip(Lower(e.author))>>

\* s is a subsequence of t (relative order preserved)
RECURSIVE IsSubsequence(_, _)
IsSubsequence(s, t) ==
    IF s = <<>> THEN TRUE
    ELSE IF t = <<>> THEN FALSE
    ELSE IF Head(s) = Head(t) THEN IsSubsequence(Tail(s), Tail(t))
    ELSE IsSubsequence(s, Tail(t))

\* the keys of the entities of s
KeysOf(s) == [i \in 1..Len(s) |-> KeyOf(s[i])]

\* C18: the result of deduplicate_novels is a subsequence of its input, no
\* two of its entities have the same lower-cased, trimmed (title, author)
\* key, and for every key with non-empty title and author found in the input
\* the result holds the first input entity with that key.
C18_KeepsFirstOfEachKey ==
    dd_pc # "input" =>
        LET kin == KeysOf(dd_in)
            kout == KeysOf(dd_once)
        IN  /\ IsSubsequence(dd_once, dd_in)
            /\ \A i, j \in 1..Len(dd_once) : i # j => kout[i] # kout[j]
            /\ \A i \in 1..Len(dd_in) :
                  (/\ kin[i][1] # ""
                   /\ kin[i][2] # ""
                   /\ \A h \in 1..(i - 1) : kin[h] # kin[i])
                  => /\ \E j \in 1..Len(dd_once) : dd_once[j] = dd_in[i]
                     /\ \A j \in 1..Len(dd_once) :
                           kout[j] = kin[i] => dd_once[j] = dd_in[i]

\* an input in which a later entity repeats the key of an earlier one in
\* another case and with blanks around it, and was removed
C18_Witness ==
    /\ dd_pc = "once"
    /\ Len(dd_in) = 3
    /\ Len(dd_once) = 2
    /\ dd_in[1].title # dd_in[3].title
    /\ dd_in[1].description # dd_in[3].description
    /\ KeyOf(dd_in[1]) = KeyOf(dd_in[3])
    /\ KeyOf(dd_in[1]) # KeyOf(dd_in[2])

\* C19 (as claimed): every input entity whose title or author is empty after
\* trimming is still present in the result.
C19_EmptyKeysKept ==
    dd_pc # "input" =>
        \A i \in 1..Len(dd_in) :
            (KeyOf(dd_in[i])[1] = "" \/ KeyOf(dd_in[i])[2] = "") =>
                \E j \in 1..Len(dd_once) : dd_once[j] = dd_in[i]

\* C20: deduplicating the result of deduplicate_novels again changes
\* nothing.
C20_Idempotent == dd_pc = "twice" => dd_twice = dd_once

\* a list with duplicates and with an empty title was deduplicated twice
C20_Witness ==
    /\ dd_pc = "twice"
    /\ Len(dd_once) >= 1
    /\ Len(dd_once) < Len(dd_in)
    /\ \E i \in 1..Len(dd_in) : dd_in[i].title = ""
    /\ \E i, j \in 1..Len(dd_in) :
          i # j /\ dd_in[i] # dd_in[j] /\ KeyOf(dd_in[i]) = KeyOf(dd_in[j])
          /\ KeyOf(dd_in[i])[1] # "" /\ KeyOf(dd_in[i])[2] # ""

(***************************************************************************)
(* merge_novel_lists (utils.py:110-124).                                    *)
(***************************************************************************)
\* a variant that puts each further list in front of the ones before it
Extend_Front(all_novels, novel_list) == novel_list \o all_novels

\* utils.py:122: all_novels.extend(novel_list)
Extend(all_novels, novel_list) == all_novels \o novel_list

\* utils.py:120-122: the loop over the argument lists
RECURSIVE MergeLoop(_, _)
MergeLoop(novel_lists, all_novels) ==
    IF novel_lists = <<>> THEN all_novels
    ELSE MergeLoop(Tail(novel_lists), Extend(all_novels, Head(novel_lists)))

merge_novel_lists(novel_lists) == deduplicate_novels(MergeLoop(novel_lists, <<>>))

\* entities of several runs: title "A" of author "B" with two differing
\* descriptions, and another author's title
MergeNovels ==
    {[title |-> "A", author |-> "B", description |-> "d1"],
     [title |-> "A", author |-> "B", description |-> "d2"],
     [title |-> "A", author |-> "C", description |-> "d1"]}

InitMerge ==
    /\ CoreIdle
    /\ NormIdle
    /\ SelectIdle
    /\ ExtractIdle
    /\ StoreIdle
    /\ AllPlatformsIdle
    /\ RevealIdle
    /\ GenresIdle
    /\ ScansIdle
    /\ SaveIdle
    /\ CrawlAllIdle
    /\ FetchPageIdle
    /\ mg_pc = "input"
    /\ mg_lists \in SeqsUpTo(SeqsUpTo(MergeNovels, MaxMergeLen), MaxLists)
    /\ mg_out = <<>>

\* merge_novel_lists(L1, ..., Ln)
Merge ==
    /\ mg_pc = "input"
    /\ mg_out' = merge_novel_lists(mg_lists)
    /\ mg_pc' = "done"
    /\ UNCHANGED mg_lists
    /\ UNCHANGED <<coreVars, normVars, selectVars, extractVars, storeVars, allPlatformsVars, revealVars, genresVars, scansVars, saveVars, crawlAllVars, fetchPageVars>>

NextMerge == Merge

SpecMerge == InitMerge /\ [][NextMerge]_vars

\* L1 ++ ... ++ Ln
RECURSIVE Concatenation(_)
Concatenation(ls) ==
    IF ls = <<>> THEN <<>> ELSE Head(ls) \o Concatenation(Tail(ls))

\* C21: merge_novel_lists(L1, ..., Ln) equals deduplicate_novels of
\* L1 ++ ... ++ Ln, and of the entities that share a (title, author) key
\* with non-empty parts exactly one is kept, the first in argument order.
C21_MergeKeepsFirst ==
    mg_pc = "done" =>
        LET all == Concatenation(mg_lists)
            kall == KeysOf(all)
            kout == KeysOf(mg_out)
        IN  /\ mg_out = deduplicate_novels(all)
            /\ \A h, g \in 1..Len(mg_out) : h # g => kout[h] # kout[g]
            /\ \A p \in 1..Len(all) :
                  (/\ kall[p][1] # ""
                   /\ kall[p][2] # ""
                   /\ \A q \in 1..(p - 1) : kall[q] # kall[p])
                  => \E h \in 1..Len(mg_out) :
                        kout[h] = kall[p] /\ mg_out[h] = all[p]

\* two runs hold the same title and author with differing descriptions and
\* the merge kept the entity of the first run only
C21_Witness ==
    /\ mg_pc = "done"
    /\ Len(mg_lists) = 2
    /\ Len(mg_lists[1]) >= 1
    /\ Len(mg_lists[2]) >= 1
    /\ KeyOf(mg_lists[1][1]) = KeyOf(mg_lists[2][1])
    /\ mg_lists[1][1].description # mg_lists[2][1].description
    /\ mg_lists[1][1].author = "B"
    /\ mg_out = <<mg_lists[1][1]>>

(***************************************************************************)
(* BaseCrawler.normalize_novel_data and _extract_keywords                   *)
(* (base.py:128-165) for keywords given as a list or as a comma-joined      *)
(* string.                                                                  *)
(***************************************************************************)
\* python  sep.join(parts)
RECURSIVE Join(_, _)
Join(parts, sep) ==
    IF parts = <<>> THEN ""
    ELSE IF Len(parts) = 1 THEN Head(parts)
    ELSE Head(parts) \o sep \o Join(Tail(parts), sep)

\* python  s.split(sep)  for a one-character sep: cur is the piece being read
RECURSIVE SplitFrom(_, _, _)
SplitFrom(s, sep, cur) ==
    IF Len(s) = 0 THEN <<cur>>
    ELSE IF SubSeq(s, 1, 1) = sep
         THEN <<cur>> \o SplitFrom(SubSeq(s, 2, Len(s)), sep, "")
         ELSE SplitFrom(SubSeq(s, 2, Len(s)), sep, cur \o SubSeq(s, 1, 1))

Split(s, sep) == SplitFrom(s, sep, "")

\* base.py:161: [k.strip() for k in keywords.split(",")]
StripEach(parts) == [i \in 1..Len(parts) |-> Strip(parts[i])]

\* base.py:164: [k for k in keywords if k]
RECURSIVE NonEmpty(_)
NonEmpty(keywords) ==
    IF keywords = <<>> THEN <<>>
    ELSE (IF Head(keywords) # "" THEN <<Head(keywords)>> ELSE <<>>)
         \o NonEmpty(Tail(keywords))

\* a variant that returns the list as it is
ListOfSet_Same(keywords) == {keywords}

\* base.py:165: list(set(keywords)); the order of the list is not defined,
\* every order of the distinct values is possible
ListOfSet(keywords) ==
    LET S == Range(keywords) IN
    {l \in [1..Cardinality(S) -> S] : Range(l) = S}

\* base.py:147-165 _extract_keywords: the lists it can return
extract_keywords(raw_data, is_str) ==
    LET keywords == IF "keywords" \in DOMAIN raw_data
                    THEN (IF is_str
                          THEN StripEach(Split(raw_data.keywords, ","))
                          ELSE raw_data.keywords)
                    ELSE <<>>
    IN  ListOfSet(NonEmpty(keywords))

\* keywords as the pages give them: doubled, empty, blank, with blanks around
RawKeywords == {"x", " x", "", "y "}

KeywordLists == SeqsUpTo(RawKeywords, MaxKeywords)

RawText == [title : {" t ", "t"}, author : {"a "}, description : {" d"},
            url : {"u "}]

\* an item with a keyword list, with a comma-joined string, or without keywords
RawItems(is_str) ==
    IF is_str
    THEN {[title |-> r.title, author |-> r.author, description |-> r.description,
           url |-> r.url, keywords |-> Join(l, ",")] :
             r \in RawText, l \in KeywordLists}
    ELSE {[title |-> r.title, author |-> r.author, description |-> r.description,
           url |-> r.url, keywords |-> l] : r \in RawText, l \in KeywordLists}
         \cup {[title |-> " t "]}

InitNorm ==
    /\ CoreIdle
    /\ MergeIdle
    /\ SelectIdle
    /\ ExtractIdle
    /\ StoreIdle
    /\ AllPlatformsIdle
    /\ RevealIdle
    /\ GenresIdle
    /\ ScansIdle
    /\ SaveIdle
    /\ CrawlAllIdle
    /\ FetchPageIdle
    /\ nz_pc = "input"
    /\ nz_is_str \in BOOLEAN
    /\ nz_raw \in RawItems(nz_is_str)
    /\ nz_out = <<>>

\* normalize_novel_data(raw_data)
Normalize ==
    /\ nz_pc = "input"
    /\ \E keywords \in extract_keywords(nz_raw, nz_is_str) :
          nz_out' = normalize_novel_data(nz_raw, keywords)
    /\ nz_pc' = "done"
    /\ UNCHANGED <<nz_is_str, nz_raw>>
    /\ UNCHANGED <<coreVars, mergeVars, selectVars, extractVars, storeVars, allPlatformsVars, revealVars, genresVars, scansVars, saveVars, crawlAllVars, fetchPageVars>>

NextNorm == Normalize

SpecNorm == InitNorm /\ [][NextNorm]_vars

\* the non-empty keywords of the raw item, trimmed when they come from a
\* comma-joined string
InputKeywords ==
    IF "keywords" \notin DOMAIN nz_raw THEN {}
    ELSE IF nz_is_str
         THEN {Strip(k) : k \in Range(Split(nz_raw.keywords, ","))} \ {""}
         ELSE Range(nz_raw.keywords) \ {""}

\* C22: the keyword list of a normalized item holds no empty string and no
\* value twice and its set is the set of the non-empty (for a comma string:
\* trimmed) input keywords; title, author, description and url are trimmed
\* and platform is the crawler's platform name.
C22_NormalizedItem ==
    nz_pc = "done" =>
        /\ \A i \in 1..Len(nz_out.keywords) : nz_out.keywords[i] # ""
        /\ Distinct(nz_out.keywords)
        /\ Range(nz_out.keywords) = InputKeywords
        /\ nz_out.title = Strip(Get(nz_raw, "title", ""))
        /\ nz_out.author = Strip(Get(nz_raw, "author", ""))
        /\ nz_out.description = Strip(Get(nz_raw, "description", ""))
        /\ nz_out.url = Strip(Get(nz_raw, "url", ""))
        /\ \A f \in {"title", "author", "description", "url"} :
              ~StartsWith(nz_out[f], " ") /\ RStrip(nz_out[f]) = nz_out[f]
        /\ nz_out.platform = platform_name

\* a comma-joined string with a doubled and a blank-padded keyword was
\* normalized to two keywords
C22_Witness ==
    /\ nz_pc = "done"
    /\ nz_is_str
    /\ nz_raw.keywords = "x, x,y "
    /\ Range(nz_out.keywords) = {"x", "y"}
    /\ Len(nz_out.keywords) = 2
    /\ nz_out.title = "t"

(***************************************************************************)
(* The selector engine: CrawlerClient._extract_field and _extract_by_xpath  *)
(* (crawler_client.py:259-346).  An element is the sequence of its nodes in *)
(* document order; soupsieve and lxml are the two query engines.            *)
(***************************************************************************)
\* python  s.find(sub) + 1  (0: not found)
Find(s, sub) ==
    LET hits == {i \in 1..(Len(s) - Len(sub) + 1) :
                    SubSeq(s, i, i + Len(sub) - 1) = sub}
    IN  IF hits = {} THEN 0 ELSE CHOOSE i \in hits : \A j \in hits : i <= j

\* python  sub in s
Contains(s, sub) == Find(s, sub) # 0

\* python  s.replace(sub, "")
RECURSIVE Remove(_, _)
Remove(s, sub) ==
    LET i == Find(s, sub) IN
    IF i = 0 THEN s
    ELSE SubSeq(s, 1, i - 1) \o Remove(SubSeq(s, i + Len(sub), Len(s)), sub)

\* python  s.split(sep, 1)  when sep is in s
SplitOnce(s, sep) ==
    LET i == Find(s, sep) IN
    <<SubSeq(s, 1, i - 1), SubSeq(s, i + Len(sep), Len(s))>>

\* a call that returned v / a call that raised
Returned(v) == [raised |-> FALSE, value |-> v]

Raised == [raised |-> TRUE, value |-> <<>>]

\* soupsieve: element.select(css) for a tag-name selector
CssSelect(element, css) == SelectSeq(element, LAMBDA n : n.tag = css)

\* lxml: an expression lxml cannot compile (it raises XPathEvalError)
XPathMalformed(xpath) ==
    Len(xpath) >= 1 /\ SubSeq(xpath, Len(xpath), Len(xpath)) = "["

\* lxml: the expression selects attribute values (strings), not elements
XPathOfAttr(xpath) == Contains(xpath, "/@")

\* lxml: tree.xpath(xpath) for //tag (element nodes) and //tag/@attr
\* (strings, of the nodes that have the attribute)
XPathEval(element, xpath) ==
    IF XPathOfAttr(xpath)
    THEN LET q == SplitOnce(xpath, "/@")
             tag == SubSeq(q[1], 3, Len(q[1]))
             hit == SelectSeq(element,
                              LAMBDA n : n.tag = tag /\ q[2] \in DOMAIN n)
         IN  [i \in 1..Len(hit) |-> hit[i][q[2]]]
    ELSE SelectSeq(element, LAMBDA n : n.tag = SubSeq(xpath, 3, Len(xpath)))

\* a variant of the single-value text branch without the `if el else ""`
TextOfFirst_NoGuard(elements) ==
    IF elements = <<>> THEN Raised ELSE Returned(Strip(Head(elements).text))

\* line 293: el.get_text(strip=True) if el else ""
TextOfFirst(elements) ==
    IF elements = <<>> THEN Returned("") ELSE Returned(Strip(Head(elements).text))

\* crawler_client.py:296-346 _extract_by_xpath
extract_by_xpath(element, xpath) ==
    IF Contains(xpath, "[multiple]")
    THEN \* lines 312-322: tree.xpath is called outside any try
         LET x == Remove(xpath, "[multiple]") IN
         IF XPathMalformed(x) THEN Raised
         ELSE LET found == XPathEval(element, x) IN
              IF XPathOfAttr(x)
              THEN Returned([i \in 1..Len(found) |-> Strip(found[i])])
              ELSE Returned([i \in 1..Len(found) |-> Strip(found[i].text)])
    ELSE \* lines 325-346: try ... except Exception: return ""
         IF XPathMalformed(xpath) THEN Returned("")
         ELSE LET result == XPathEval(element, xpath) IN
              IF result = <<>> THEN Returned("")
              ELSE IF XPathOfAttr(xpath) THEN Returned(Strip(result[1]))
              ELSE Returned(Strip(result[1].text))

\* crawler_client.py:259-293 _extract_field
extract_field(element, selector) ==
    IF HasPrefix(selector, "xpath:")
    THEN extract_by_xpath(element, SubSeq(selector, 7, Len(selector)))
    ELSE IF Contains(selector, "[multiple]")
    THEN LET elements == CssSelect(element, Remove(selector, "[multiple]")) IN
         Returned([i \in 1..Len(elements) |-> Strip(elements[i].text)])
    ELSE IF Contains(selector, "@")
    THEN LET q == SplitOnce(selector, "@")
             elements == CssSelect(element, q[1])
         IN  IF elements = <<>> THEN Returned("")
             ELSE Returned(Strip(Get(Head(elements), q[2], "")))
    ELSE TextOfFirst(CssSelect(element, selector))

\* nodes of a list item or a detail page: links with and without href, tags
Nodes ==
    {[tag |-> "a", text |-> " T ", href |-> " /content/1 "],
     [tag |-> "a", text |-> "U"],
     [tag |-> "span", text |-> "k1 "],
     [tag |-> "span", text |-> "k2"]}

Elements == SeqsUpTo(Nodes, MaxNodes)

\* selectors of every documented form (docstring of _extract_field)
WellFormedSelectors ==
    {"a", "a@href", "span[multiple]",
     "xpath://a", "xpath://a/@href", "xpath://span[multiple]",
     "xpath://a/@href[multiple]"}

\* selectors whose XPath expression lxml cannot compile
MalformedSelectors == {"xpath://span[", "xpath://span[[multiple]"}

InitSelect ==
    /\ CoreIdle
    /\ MergeIdle
    /\ NormIdle
    /\ ExtractIdle
    /\ StoreIdle
    /\ AllPlatformsIdle
    /\ RevealIdle
    /\ GenresIdle
    /\ ScansIdle
    /\ SaveIdle
    /\ CrawlAllIdle
    /\ FetchPageIdle
    /\ se_pc = "input"
    /\ se_element \in Elements
    /\ se_selector \in WellFormedSelectors \cup MalformedSelectors
    /\ se_result = <<>>

\* self._extract_field(element, selector)
ExtractField ==
    /\ se_pc = "input"
    /\ se_result' = extract_field(se_element, se_selector)
    /\ se_pc' = "done"
    /\ UNCHANGED <<se_element, se_selector>>
    /\ UNCHANGED <<coreVars, mergeVars, normVars, extractVars, storeVars, allPlatformsVars, revealVars, genresVars, scansVars, saveVars, crawlAllVars, fetchPageVars>>

NextSelect == ExtractField

SpecSelect == InitSelect /\ [][NextSelect]_vars

\* the tag a selector of the documented forms asks for, and whether it asks
\* for the href attribute
TagOf(selector) == IF Contains(selector, "span") THEN "span" ELSE "a"

AsksHref(selector) == Contains(selector, "@href")

\* the positions of the element's nodes the selector matches
MatchesOf(element, selector) ==
    {i \in 1..Len(element) :
        /\ element[i].tag = TagOf(selector)
        /\ (AsksHref(selector) /\ HasPrefix(selector, "xpath:"))
              => "href" \in DOMAIN element[i]}

\* the value the selector asks of node n, trimmed
ValueOf(n, selector) ==
    IF AsksHref(selector) THEN Strip(Get(n, "href", "")) ELSE Strip(n.text)

\* C23: resolving a well-formed selector never raises when it matches
\* nothing: a single-value selector gives "", a [multiple] selector gives
\* the empty list; a [multiple] selector with N matches gives N entries in
\* document order.
C23_NoMatchIsEmpty ==
    (se_pc = "done" /\ se_selector \in WellFormedSelectors) =>
        LET m == MatchesOf(se_element, se_selector)
            multiple == Contains(se_selector, "[multiple]")
        IN  /\ m = {} => ~se_result.raised
            /\ (m = {} /\ ~multiple) => se_result.value = ""
            /\ (m = {} /\ multiple) => se_result.value = <<>>
            /\ multiple =>
                  /\ ~se_result.raised
                  /\ Len(se_result.value) = Cardinality(m)
                  /\ \A h \in 1..Len(se_result.value) :
                        \E i \in m :
                            /\ Cardinality({j \in m : j <= i}) = h
                            /\ se_result.value[h] = ValueOf(se_element[i], se_selector)

\* a text selector resolved against an element without a matching node
C23_Witness ==
    /\ se_pc = "done"
    /\ se_selector = "a"
    /\ Len(se_element) = 2
    /\ \A i \in 1..Len(se_element) : se_element[i].tag = "span"
    /\ se_result = Returned("")

(***************************************************************************)
(* The item loop of _extract_with_scroll / _extract_with_pagination         *)
(* (crawler_client.py:144-154, 194-203) with the field selectors resolved   *)
(* by _extract_field, inside navigate_and_extract (93-118).  The page shows *)
(* the same items at every scan, so the run returns what the first scan     *)
(* collected.                                                               *)
(***************************************************************************)
\* list items: a link and a tag each, or a tag only
ItemElements ==
    {<<[tag |-> "a", text |-> " T ", href |-> " /content/1 "],
       [tag |-> "span", text |-> "k1 "]>>,
     <<[tag |-> "a", text |-> "U", href |-> "/content/2"],
       [tag |-> "span", text |-> "k2"]>>,
     <<[tag |-> "span", text |-> "k1 "]>>}

UrlField == [field |-> "url", selector |-> "a@href"]

\* field_selectors: the url and one more field, in either dict order
FieldSelectors ==
    UNION {{<<UrlField, [field |-> "keywords", selector |-> s]>>,
            <<[field |-> "keywords", selector |-> s], UrlField>>} :
           s \in {"span[multiple]", "xpath://span[multiple]", "xpath://a",
                  "xpath://span[", "xpath://span[[multiple]"}}

InitExtract ==
    /\ CoreIdle
    /\ MergeIdle
    /\ NormIdle
    /\ SelectIdle
    /\ StoreIdle
    /\ AllPlatformsIdle
    /\ RevealIdle
    /\ GenresIdle
    /\ ScansIdle
    /\ SaveIdle
    /\ CrawlAllIdle
    /\ FetchPageIdle
    /\ ex_items \in SeqsUpTo(ItemElements, MaxExtractItems)
    /\ ex_pc = IF ex_items = <<>> THEN "return" ELSE "field"
    /\ ex_field_selectors \in FieldSelectors
    /\ ex_i = 1
    /\ ex_f = 1
    /\ ex_data = <<>>
    /\ ex_results = <<>>
    /\ ex_ret = <<>>

\* python dict with d[k] = v done
DictSet(d, k, v) == [x \in (DOMAIN d) \cup {k} |-> IF x = k THEN v ELSE d[x]]

\* lines 153-154: the item is appended when it has a url no result has yet
AppendIfNew(res, data) ==
    IF Get(data, "url", "") # ""
       /\ \A j \in 1..Len(res) : Get(res[j], "url", "") # data.url
    THEN Append(res, data) ELSE res

\* lines 149-154: data[field] = self._extract_field(item, selector), and
\* after the last field the dedup test; an exception of _extract_field
\* leaves the loop and the strategy function
ExtractItemField ==
    /\ ex_pc = "field"
    /\ LET fs == ex_field_selectors[ex_f]
           r == extract_field(ex_items[ex_i], fs.selector)
           data == DictSet(ex_data, fs.field, r.value)
       IN  IF r.raised
           THEN /\ ex_pc' = "except"
                /\ UNCHANGED <<ex_i, ex_f, ex_data, ex_results>>
           ELSE IF ex_f < Len(ex_field_selectors)
           THEN /\ ex_f' = ex_f + 1
                /\ ex_data' = data
                /\ UNCHANGED <<ex_pc, ex_i, ex_results>>
           ELSE /\ ex_results' = AppendIfNew(ex_results, data)
                /\ ex_data' = <<>>
                /\ ex_f' = 1
                /\ ex_i' = ex_i + 1
                /\ ex_pc' = IF ex_i < Len(ex_items) THEN "field" ELSE "return"
    /\ UNCHANGED <<ex_items, ex_field_selectors, ex_ret>>
    /\ UNCHANGED <<coreVars, mergeVars, normVars, selectVars, storeVars, allPlatformsVars, revealVars, genresVars, scansVars, saveVars, crawlAllVars, fetchPageVars>>

\* lines 112-118: the exception is logged, the page closed and the outer
\* results, still [], returned
ExtractCaught ==
    /\ ex_pc = "except"
    /\ ex_ret' = <<>>
    /\ ex_pc' = "done"
    /\ UNCHANGED <<ex_items, ex_field_selectors, ex_i, ex_f, ex_data, ex_results>>
    /\ UNCHANGED <<coreVars, mergeVars, normVars, selectVars, storeVars, allPlatformsVars, revealVars, genresVars, scansVars, saveVars, crawlAllVars, fetchPageVars>>

\* lines 171 and 101-118: the loop ends and its results are returned
ExtractReturn ==
    /\ ex_pc = "return"
    /\ ex_ret' = ex_results
    /\ ex_pc' = "done"
    /\ UNCHANGED <<ex_items, ex_field_selectors, ex_i, ex_f, ex_data, ex_results>>
    /\ UNCHANGED <<coreVars, mergeVars, normVars, selectVars, storeVars, allPlatformsVars, revealVars, genresVars, scansVars, saveVars, crawlAllVars, fetchPageVars>>

NextExtract == ExtractItemField \/ ExtractCaught \/ ExtractReturn

SpecExtract == InitExtract /\ [][NextExtract]_vars

\* the selector field_selectors gives for the keywords field
KeywordsSelector ==
    LET f == CHOOSE g \in 1..Len(ex_field_selectors) :
                 ex_field_selectors[g].field = "keywords"
    IN  ex_field_selectors[f].selector

\* C24 (as claimed): whatever the keywords selector is, malformed XPath
\* included, every item with a url is returned by the run with its url, and
\* a malformed selector leaves that one field empty.
C24_MalformedXPathOnlyEmptiesField ==
    ex_pc = "done" =>
        \A i \in 1..Len(ex_items) :
            LET u == extract_field(ex_items[i], UrlField.selector).value IN
            u # "" =>
                \E j \in 1..Len(ex_ret) :
                    /\ ex_ret[j].url = u
                    /\ KeywordsSelector \in MalformedSelectors =>
                          IF Contains(KeywordsSelector, "[multiple]")
                          THEN ex_ret[j].keywords = <<>>
                          ELSE ex_ret[j].keywords = ""

\* C25 (as claimed): when the browser fails during navigate_and_extract or
\* during a detail fetch (an await on the page or create_page raises), the
\* call ends with that error; it does not return a list as if nothing had
\* happened.
C25_BrowserFailurePropagates ==
    /\ (lpc = "done" /\ stop = "error") => outcome = "raised"
    /\ dpc = "done" => \A t \in 1..Len(task) : ~task[t].exc

\* C26 (as claimed): when a scan or pagination step of a list run fails and
\* navigate_and_extract returns, it returns the items the earlier scans of
\* the run had collected.
C26_CollectedItemsSurviveFailure ==
    (lpc = "done" /\ outcome = "returned" /\ stop \in {"error", "click_failed"})
        => nav_results = Take(results, limit)

(***************************************************************************)
(* The infinite-scroll run with its scans counted.                         *)
(***************************************************************************)
\* a navigate_and_extract call with the infinite-scroll strategy; the limit
\* may be negative
InitScans ==
    /\ MoreIdle
    /\ strategy = "infinite_scroll"
    /\ limit \in -1..MaxLimit
    /\ lpc = "create"
    /\ page_open = FALSE
    /\ dom = <<>>
    /\ next_ctl = "absent"
    /\ results = <<>>
    /\ previous_count = 0
    /\ no_new_items_count = 0
    /\ page_num = 1
    /\ nav_results = <<>>
    /\ outcome = "running"
    /\ firstSeen = <<>>
    /\ stagnant = 0
    /\ stop = "none"
    /\ DetailIdle
    /\ LoginIdle
    /\ BrowserIdle
    /\ DedupIdle

\* lines 134-165: one more pass through the while body
CountedScrollScan ==
    /\ ScrollScanStep
    /\ sc_scans' = sc_scans + 1
    /\ UNCHANGED <<detailVars, loginVars, browserVars, dedupVars>>
    /\ UNCHANGED <<mergeVars, normVars, selectVars, extractVars, storeVars,
                   allPlatformsVars, revealVars, genresVars, saveVars,
                   crawlAllVars, fetchPageVars>>

NextScans ==
    \/ CreatePage
    \/ Goto
    \/ CountedScrollScan
    \/ ScrollDown
    \/ ClosePage

SpecScans == InitScans /\ [][NextScans]_vars

\* C34: an infinite-scroll run makes at most 3 * limit scans for a limit of
\* one or more, whatever the page shows, and no scan for a limit of zero or
\* less: every growing scan adds an item, at most two scans that add nothing
\* lie between growing ones and at most three at the end.
C34_ScansBoundedByLimit ==
    /\ limit >= 1 => sc_scans <= 3 * limit
    /\ limit <= 0 => sc_scans = 0
    /\ sc_scans <= 3 * Len(results) + stagnant
                     + (IF stop = "error" THEN 1 ELSE 0)

\* C34 witness: a run of limit two or more that returned after exactly
\* 3 * limit scans, having reached its limit.
C34_Witness ==
    /\ outcome = "returned"
    /\ limit >= 2
    /\ sc_scans = 3 * limit
    /\ Len(nav_results) = limit

\* C32: click pagination never clicks the next control once the result
\* count has reached the limit: the scan that reaches the limit ends the run
\* (only the page is closed after it).
C32_NoClickAtLimit ==
    /\ []((strategy = "pagination" /\ lpc = "next") => Len(results) < limit)
    /\ [][(strategy = "pagination" /\ lpc = "scan" /\ stop' # "error"
             /\ Len(results') >= limit)
            => /\ lpc' = "close"
               /\ stop' = "limit"
               /\ nav_results' = Take(results', limit)]_vars
    /\ [][(strategy = "pagination" /\ stop = "limit")
            => /\ lpc' = "done"
               /\ page_num' = page_num
               /\ results' = results]_vars

\* C32 witness: a run that reached its limit of two or more items on its
\* second or a later page and returned.
C32_Witness ==
    /\ strategy = "pagination"
    /\ outcome = "returned"
    /\ stop = "limit"
    /\ page_num >= 2
    /\ limit >= 2
    /\ Len(nav_results) = limit

\* C33 (as claimed): an infinite-scroll run performs no scroll once the
\* result count has reached the limit.
C33_NoScrollAtLimit ==
    (strategy = "infinite_scroll" /\ lpc = "scroll") => Len(results) < limit

\* C36: a crawl call attempts login at most once, and only when
\* include_adult is true, is_logged_in is false and credentials are
\* configured; the attempt is over before the list page is requested; with
\* include_adult false, or with is_logged_in true after a successful login,
\* a crawl attempts no login.
C36_LoginAtMostOnceWhenNeeded ==
    /\ [][lg_pc' = "create"
            => /\ epc = "entry" /\ lg_pc = "idle"
               /\ include_adult /\ ~is_logged_in /\ creds]_vars
    /\ [][(lg_pc # "idle" /\ crawls' = crawls) => lg_pc' # "create"]_vars
    /\ [][(epc = "entry" /\ (~include_adult \/ is_logged_in \/ ~creds))
            => (lg_pc' = "idle" /\ epc' = "crawl")]_vars
    /\ []((epc = "crawl" \/ requested # "none") => lg_pc \in {"idle", "done"})

\* C36 witness: the second crawl of a crawler that logged in during its
\* first crawl asked for adult content and requested its list without a
\* login attempt.
C36_Witness ==
    /\ crawls = 2
    /\ creds
    /\ is_logged_in
    /\ include_adult
    /\ epc = "done"
    /\ requested # "none"
    /\ lg_pc = "idle"

(***************************************************************************)
(* The click-pagination run without a bound on its pages, every browser    *)
(* step completing (weak fairness of the run's steps).                     *)
(***************************************************************************)
InitPaging ==
    /\ InitList
    /\ strategy = "pagination"

\* lines 209-221 and the while test at 186, on any page: page_num is only
\* logged (line 187), so its value is kept at MaxPages once it is there
ClickNextAnyPage ==
    /\ UNCHANGED <<detailVars, loginVars, browserVars, dedupVars, moreVars>>
    /\ lpc = "next"
    /\ \E o \in ClickOutcomes(next_ctl) :
         IF o = "ok"
         THEN /\ page_num' = Min(page_num + 1, MaxPages)
              /\ Rendered
              /\ LoopOrReturn(results)
         ELSE /\ lpc' = IF o = "no_next" THEN AfterNoNext
                        ELSE AfterClickFailure
              /\ stop' = o
              /\ nav_results' = IF lpc' = "close" THEN Take(results, limit)
                                ELSE nav_results
              /\ UNCHANGED <<page_num, dom, next_ctl>>
    /\ UNCHANGED <<strategy, limit, page_open, results, previous_count,
                   no_new_items_count, outcome, firstSeen, stagnant>>

NextPaging ==
    \/ CreatePage
    \/ Goto
    \/ PageScan
    \/ ClickNextAnyPage
    \/ ClosePage

SpecPaging == InitPaging /\ [][NextPaging]_vars /\ WF_vars(NextPaging)

\* C35 (as claimed): every click-pagination run eventually returns when each
\* of its browser steps completes, also when every page shows a clickable
\* next control and the later pages show no url that is not collected yet.
C35_PaginationReturns == <>(lpc = "done")

(***************************************************************************)
(* VectorDBService.add_novels (vector_db.py:95-164) on the novels table,    *)
(* one call after another on one connection.                                *)
(***************************************************************************)
\* what a crawl stores about a title: two crawls of the same work differ in
\* description, platform, url and keywords
Crawled(author, n) ==
    IF n = 1
    THEN [title |-> "A", author |-> author, description |-> "d1",
          platform |-> "kakao_page", url |-> "https://page.kakao.com/content/1",
          keywords |-> <<"k1">>]
    ELSE [title |-> "A", author |-> author, description |-> "d2",
          platform |-> "naver_series", url |-> "https://series.naver.com/2",
          keywords |-> <<>>]

StoredNovels == {Crawled(a, n) : a \in {"B", "C"}, n \in {1, 2}}

\* a variant that never finds a row
Existing_None(rows, novel) == <<>>

\* lines 116-120: SELECT id FROM novels WHERE title = %s AND author = %s
Existing(rows, novel) ==
    SelectSeq(rows, LAMBDA r : r.title = novel.title /\ r.author = novel.author)

\* lines 124-142: UPDATE novels SET ... WHERE id = %s
UpdateRow(rows, id, novel) ==
    [i \in 1..Len(rows) |->
        IF rows[i].id = id
        THEN [rows[i] EXCEPT !.description = novel.description,
                             !.platform = novel.platform,
                             !.url = novel.url,
                             !.keywords = Get(novel, "keywords", <<>>)]
        ELSE rows[i]]

\* lines 145-157: INSERT INTO novels ...
InsertRow(rows, id, novel) ==
    Append(rows, [id |-> id, title |-> novel.title, author |-> novel.author,
                  description |-> novel.description, platform |-> novel.platform,
                  url |-> novel.url, keywords |-> Get(novel, "keywords", <<>>)])

\* lines 114-157: the loop over the first n novels; the table and the id
\* sequence after it
RECURSIVE AddLoop(_, _, _, _)
AddLoop(novels_arg, n, rows, next_id) ==
    IF n = 0 THEN [rows |-> rows, next_id |-> next_id]
    ELSE LET before == AddLoop(novels_arg, n - 1, rows, next_id)
             novel == novels_arg[n]
             existing == Existing(before.rows, novel)
         IN  IF existing # <<>>
             THEN [rows |-> UpdateRow(before.rows, existing[1].id, novel),
                   next_id |-> before.next_id]
             ELSE [rows |-> InsertRow(before.rows, before.next_id, novel),
                   next_id |-> before.next_id + 1]

InitStore ==
    /\ CoreIdle
    /\ MergeIdle
    /\ NormIdle
    /\ SelectIdle
    /\ ExtractIdle
    /\ StoreIdle
    /\ AllPlatformsIdle
    /\ RevealIdle
    /\ GenresIdle
    /\ ScansIdle
    /\ SaveIdle
    /\ CrawlAllIdle
    /\ FetchPageIdle

\* add_novels(novels): the loop runs to its end and the transaction commits,
\* or a statement (or the embedding) fails after n novels and everything is
\* rolled back; the id sequence is not part of the transaction
AddNovels ==
    /\ db_calls < MaxAddCalls
    /\ db_calls' = db_calls + 1
    /\ \E batch \in SeqsUpTo(StoredNovels, MaxBatchLen) :
          /\ db_batch' = batch
          /\ db_before' = db_rows
          /\ \/ LET done == AddLoop(batch, Len(batch), db_rows, db_next_id) IN
                /\ db_rows' = done.rows
                /\ db_next_id' = done.next_id
                /\ db_outcome' = "committed"
             \/ \E n \in 0..Len(batch) :
                   /\ db_next_id' = AddLoop(batch, n, db_rows, db_next_id).next_id
                   /\ db_outcome' = "rolled_back"
                   /\ UNCHANGED db_rows
    /\ UNCHANGED <<coreVars, mergeVars, normVars, selectVars, extractVars, allPlatformsVars, revealVars, genresVars, scansVars, saveVars, crawlAllVars, fetchPageVars>>

NextStore == AddNovels

SpecStore == InitStore /\ [][NextStore]_vars

\* the rows of a table with the title and author of n
RowsOf(rows, n) ==
    {i \in 1..Len(rows) : rows[i].title = n.title /\ rows[i].author = n.author}

\* C27: no two rows of the table have the same (title, author), and after a
\* call that went through every novel of the call whose (title, author) was
\* in the table before, or earlier in the call, is found in the row that had
\* it (same id), with the description, platform, url and keywords of the
\* last such novel of the call; only new (title, author) pairs add rows.
C27_IngestionIdempotent ==
    /\ \A i, j \in 1..Len(db_rows) :
          i # j => ~(db_rows[i].title = db_rows[j].title
                     /\ db_rows[i].author = db_rows[j].author)
    /\ db_outcome = "committed" =>
          /\ \A b \in 1..Len(db_batch) :
                LET n == db_batch[b]
                    last == CHOOSE c \in b..Len(db_batch) :
                               /\ RowsOf(db_batch, db_batch[c]) = RowsOf(db_batch, n)
                               /\ \A d \in (c + 1)..Len(db_batch) :
                                     d \notin RowsOf(db_batch, n)
                IN  \E i \in 1..Len(db_rows) :
                       /\ RowsOf(db_rows, n) = {i}
                       /\ db_rows[i].description = db_batch[last].description
                       /\ db_rows[i].platform = db_batch[last].platform
                       /\ db_rows[i].url = db_batch[last].url
                       /\ db_rows[i].keywords = db_batch[last].keywords
                       /\ \A h \in RowsOf(db_before, n) :
                             db_rows[i].id = db_before[h].id
          /\ Len(db_rows) = Len(db_before)
                + Cardinality({<<db_batch[b].title, db_batch[b].author>> :
                                 b \in {c \in 1..Len(db_batch) :
                                           RowsOf(db_before, db_batch[c]) = {}}})
    /\ db_outcome = "rolled_back" => db_rows = db_before

\* a second call brought a title the table had with other details, twice,
\* and its row was updated in place
C27_Witness ==
    /\ db_calls = 2
    /\ db_outcome = "committed"
    /\ Len(db_before) = 1
    /\ Len(db_batch) = 2
    /\ db_batch[1].author = db_before[1].author
    /\ db_batch[2].author = db_before[1].author
    /\ db_batch[2].description # db_before[1].description
    /\ Len(db_rows) = 1
    /\ db_rows[1].id = db_before[1].id
    /\ db_rows[1].description = db_batch[2].description

(***************************************************************************)
(* crawl_all_platforms (crawl_novels.py:183-234) and the save decision of   *)
(* the crawl_platform calls it makes (crawl_novels.py:121-123, 172-174).    *)
(***************************************************************************)
\* line 201
platforms == <<"naver", "kakao", "ridi">>

\* what a crawl of platform p can return: the same works are on every
\* platform
PlatformNovels(p) == [title : {"A", "C"}, author : {"B"}, platform : {p}]

\* a variant that hands its own save_to_db on to crawl_platform
PlatformSaveFlag_Passed(save_to_db) == save_to_db

\* line 216: save_to_db=False
PlatformSaveFlag(save_to_db) == FALSE

\* lines 121 / 172 / 230: if save_to_db and novels
SaveWanted(save_to_db, novels_arg) == save_to_db /\ novels_arg # <<>>

InitAllPlatforms ==
    /\ CoreIdle
    /\ MergeIdle
    /\ NormIdle
    /\ SelectIdle
    /\ ExtractIdle
    /\ StoreIdle
    /\ RevealIdle
    /\ GenresIdle
    /\ ScansIdle
    /\ SaveIdle
    /\ CrawlAllIdle
    /\ FetchPageIdle
    /\ ap_pc = "loop"
    /\ ap_save_to_db \in BOOLEAN
    /\ ap_i = 1
    /\ ap_all_novels = <<>>
    /\ ap_collected = <<>>
    /\ ap_saves = <<>>

\* lines 205-223: one round of the platform loop; crawl_platform returns a
\* list, having saved it if its own save_to_db says so, or raises
CrawlPlatform ==
    /\ ap_pc = "loop"
    /\ \/ \E ns \in SeqsUpTo(PlatformNovels(platforms[ap_i]), MaxPlatformNovels) :
             /\ ap_all_novels' = ap_all_novels \o ns
             /\ ap_collected' = ap_collected \o ns
             /\ ap_saves' =
                   IF SaveWanted(PlatformSaveFlag(ap_save_to_db), ns)
                   THEN Append(ap_saves, [by |-> "crawl_platform", novels |-> ns,
                                          after |-> ap_i])
                   ELSE ap_saves
       \/ \* except Exception: continue
          UNCHANGED <<ap_all_novels, ap_collected, ap_saves>>
    /\ ap_i' = ap_i + 1
    /\ ap_pc' = IF ap_i = Len(platforms) THEN "save" ELSE "loop"
    /\ UNCHANGED ap_save_to_db
    /\ UNCHANGED <<coreVars, mergeVars, normVars, selectVars, extractVars, storeVars, revealVars, genresVars, scansVars, saveVars, crawlAllVars, fetchPageVars>>

\* lines 225-234: deduplicate across platforms, save, return
DedupAndSave ==
    /\ ap_pc = "save"
    /\ LET all == deduplicate_novels(ap_all_novels) IN
       /\ ap_all_novels' = all
       /\ ap_saves' =
             IF SaveWanted(ap_save_to_db, all)
             THEN Append(ap_saves, [by |-> "crawl_all_platforms", novels |-> all,
                                    after |-> ap_i - 1])
             ELSE ap_saves
    /\ ap_pc' = "done"
    /\ UNCHANGED <<ap_save_to_db, ap_i, ap_collected>>
    /\ UNCHANGED <<coreVars, mergeVars, normVars, selectVars, extractVars, storeVars, revealVars, genresVars, scansVars, saveVars, crawlAllVars, fetchPageVars>>

NextAllPlatforms == CrawlPlatform \/ DedupAndSave

SpecAllPlatforms == InitAllPlatforms /\ [][NextAllPlatforms]_vars

\* C28: save_crawled_novels is called at most once per crawl_all_platforms
\* invocation, by crawl_all_platforms itself and not by a platform crawl,
\* after every platform was crawled, with the deduplicated list of all
\* platforms; it is not called when save_to_db is false or the list is empty.
C28_SavedOnceAtEnd ==
    /\ Len(ap_saves) <= 1
    /\ \A k \in 1..Len(ap_saves) :
          /\ ap_saves[k].by = "crawl_all_platforms"
          /\ ap_saves[k].after = Len(platforms)
          /\ ap_pc = "done"
          /\ ap_saves[k].novels = deduplicate_novels(ap_collected)
          /\ ap_saves[k].novels = ap_all_novels
          /\ Range(KeysOf(ap_saves[k].novels)) = Range(KeysOf(ap_collected))
          /\ ap_save_to_db
          /\ ap_saves[k].novels # <<>>
    /\ (ap_pc = "done" /\ ap_save_to_db /\ ap_collected # <<>>) => Len(ap_saves) = 1

\* every platform returned novels, one work on two platforms, and the list
\* was saved once
C28_Witness ==
    /\ ap_pc = "done"
    /\ Len(ap_saves) = 1
    /\ Len(ap_collected) > Len(ap_saves[1].novels)
    /\ \A p \in Range(platforms) :
          \E i \in 1..Len(ap_collected) : ap_collected[i].platform = p

(***************************************************************************)
(* extract_detail_page with its tab block, step by step                    *)
(* (crawler_client.py:349-398).  The page moves on its own from loading    *)
(* to revealed once the tab has been clicked.                              *)
(***************************************************************************)
\* kakao.py:128-130: the fields fetch_detail asks for; the genre is in the
\* markup only when the information tab is revealed
DetailFields == {"author", "genre"}

\* kakao.py:55
INFO_TAB_SELECTOR == "a[href*='tab_type=about']"

\* variant: the settle wait returns at once
WaitReturns_Anytime(content) == TRUE

\* crawler_client.py:380: wait_for_load_state("networkidle") returns when the
\* loading the click started has ended
WaitReturns(content) == content # "loading"

\* crawler_client.py:387-391: the fields resolved in the markup read
ExtractFields(html, field_selectors) ==
    [f \in field_selectors |->
        IF f = "genre"
        THEN (IF html = "revealed" THEN "genre" ELSE "")
        ELSE f]

InitReveal ==
    /\ CoreIdle
    /\ MergeIdle
    /\ NormIdle
    /\ SelectIdle
    /\ ExtractIdle
    /\ StoreIdle
    /\ AllPlatformsIdle
    /\ GenresIdle
    /\ ScansIdle
    /\ SaveIdle
    /\ CrawlAllIdle
    /\ FetchPageIdle
    /\ rv_pc = "goto"
    /\ rv_tab_selector \in {"", INFO_TAB_SELECTOR}
    /\ rv_field_selectors \in (SUBSET DetailFields) \ {{}}
    /\ rv_tab \in {"missing", "hidden", "visible"}
    /\ rv_content = "base"
    /\ rv_page_open = TRUE
    /\ rv_clicked = FALSE
    /\ rv_settled = FALSE
    /\ rv_caught = FALSE
    /\ rv_failed = ""
    /\ rv_html = ""
    /\ rv_result = <<>>

\* lines 384-385: an exception of the tab block is logged, the call goes on
\* with page.content()
TabCaught ==
    /\ rv_caught' = TRUE
    /\ rv_pc' = "content"

\* lines 369-373: goto and the sleep; an exception is caught at line 393
RevealGoto ==
    /\ rv_pc = "goto"
    /\ \/ /\ rv_pc' = IF rv_tab_selector # "" THEN "query" ELSE "content"
          /\ UNCHANGED rv_failed
       \/ /\ rv_failed' = "goto"
          /\ rv_pc' = "close"
    /\ UNCHANGED <<rv_tab_selector, rv_field_selectors, rv_tab, rv_content,
                   rv_page_open, rv_clicked, rv_settled, rv_caught, rv_html,
                   rv_result>>
    /\ UNCHANGED <<coreVars, mergeVars, normVars, selectVars, extractVars,
                   storeVars, allPlatformsVars, genresVars, scansVars, saveVars, crawlAllVars, fetchPageVars>>

\* line 375: query_selector; None when the control is missing (line 382)
RevealQuery ==
    /\ rv_pc = "query"
    /\ \/ /\ rv_pc' = IF rv_tab = "missing" THEN "content" ELSE "visible"
          /\ UNCHANGED rv_caught
       \/ TabCaught
    /\ UNCHANGED <<rv_tab_selector, rv_field_selectors, rv_tab, rv_content,
                   rv_page_open, rv_clicked, rv_settled, rv_failed, rv_html,
                   rv_result>>
    /\ UNCHANGED <<coreVars, mergeVars, normVars, selectVars, extractVars,
                   storeVars, allPlatformsVars, genresVars, scansVars, saveVars, crawlAllVars, fetchPageVars>>

\* line 376: is_visible; False leads to the else branch of line 382
RevealVisible ==
    /\ rv_pc = "visible"
    /\ \/ /\ rv_pc' = IF rv_tab = "visible" THEN "click" ELSE "content"
          /\ UNCHANGED rv_caught
       \/ TabCaught
    /\ UNCHANGED <<rv_tab_selector, rv_field_selectors, rv_tab, rv_content,
                   rv_page_open, rv_clicked, rv_settled, rv_failed, rv_html,
                   rv_result>>
    /\ UNCHANGED <<coreVars, mergeVars, normVars, selectVars, extractVars,
                   storeVars, allPlatformsVars, genresVars, scansVars, saveVars, crawlAllVars, fetchPageVars>>

\* line 377: click; the page starts loading the tab.  A click that raises
\* may or may not have reached the page.
RevealClick ==
    /\ rv_pc = "click"
    /\ \/ /\ rv_clicked' = TRUE
          /\ rv_content' = "loading"
          /\ rv_pc' = "sleep"
          /\ UNCHANGED rv_caught
       \/ /\ TabCaught
          /\ rv_content' \in {rv_content, "loading"}
          /\ UNCHANGED rv_clicked
    /\ UNCHANGED <<rv_tab_selector, rv_field_selectors, rv_tab,
                   rv_page_open, rv_settled, rv_failed, rv_html, rv_result>>
    /\ UNCHANGED <<coreVars, mergeVars, normVars, selectVars, extractVars,
                   storeVars, allPlatformsVars, genresVars, scansVars, saveVars, crawlAllVars, fetchPageVars>>

\* the page finishes loading the tab it was asked for
PageLoads ==
    /\ rv_page_open
    /\ rv_content = "loading"
    /\ rv_content' = "revealed"
    /\ UNCHANGED <<rv_pc, rv_tab_selector, rv_field_selectors, rv_tab,
                   rv_page_open, rv_clicked, rv_settled, rv_caught, rv_failed,
                   rv_html, rv_result>>
    /\ UNCHANGED <<coreVars, mergeVars, normVars, selectVars, extractVars,
                   storeVars, allPlatformsVars, genresVars, scansVars, saveVars, crawlAllVars, fetchPageVars>>

\* line 379: asyncio.sleep(wait_after_tab_click)
RevealSleep ==
    /\ rv_pc = "sleep"
    /\ rv_pc' = "wait"
    /\ UNCHANGED <<rv_tab_selector, rv_field_selectors, rv_tab, rv_content,
                   rv_page_open, rv_clicked, rv_settled, rv_caught, rv_failed,
                   rv_html, rv_result>>
    /\ UNCHANGED <<coreVars, mergeVars, normVars, selectVars, extractVars,
                   storeVars, allPlatformsVars, genresVars, scansVars, saveVars, crawlAllVars, fetchPageVars>>

\* line 380: wait_for_load_state returns, or raises (its timeout of 10 s)
RevealWait ==
    /\ rv_pc = "wait"
    /\ \/ /\ WaitReturns(rv_content)
          /\ rv_settled' = TRUE
          /\ rv_pc' = "content"
          /\ UNCHANGED rv_caught
       \/ /\ TabCaught
          /\ UNCHANGED rv_settled
    /\ UNCHANGED <<rv_tab_selector, rv_field_selectors, rv_tab, rv_content,
                   rv_page_open, rv_clicked, rv_failed, rv_html, rv_result>>
    /\ UNCHANGED <<coreVars, mergeVars, normVars, selectVars, extractVars,
                   storeVars, allPlatformsVars, genresVars, scansVars, saveVars, crawlAllVars, fetchPageVars>>

\* line 387: page.content(); an exception is caught at line 393
RevealContent ==
    /\ rv_pc = "content"
    /\ \/ /\ rv_html' = rv_content
          /\ rv_pc' = "fields"
          /\ UNCHANGED rv_failed
       \/ /\ rv_failed' = "content"
          /\ rv_pc' = "close"
          /\ UNCHANGED rv_html
    /\ UNCHANGED <<rv_tab_selector, rv_field_selectors, rv_tab, rv_content,
                   rv_page_open, rv_clicked, rv_settled, rv_caught, rv_result>>
    /\ UNCHANGED <<coreVars, mergeVars, normVars, selectVars, extractVars,
                   storeVars, allPlatformsVars, genresVars, scansVars, saveVars, crawlAllVars, fetchPageVars>>

\* lines 388-391: the fields are resolved in the markup read; a well-formed
\* selector never raises there
RevealFields ==
    /\ rv_pc = "fields"
    /\ rv_result' = ExtractFields(rv_html, rv_field_selectors)
    /\ rv_pc' = "close"
    /\ UNCHANGED <<rv_tab_selector, rv_field_selectors, rv_tab, rv_content,
                   rv_page_open, rv_clicked, rv_settled, rv_caught, rv_failed,
                   rv_html>>
    /\ UNCHANGED <<coreVars, mergeVars, normVars, selectVars, extractVars,
                   storeVars, allPlatformsVars, genresVars, scansVars, saveVars, crawlAllVars, fetchPageVars>>

\* lines 395-398: finally page.close(), return result; a close that raises
\* leaves the call with its exception
RevealClose ==
    /\ rv_pc = "close"
    /\ rv_page_open' = FALSE
    /\ rv_pc' \in {"done", "raised"}
    /\ UNCHANGED <<rv_tab_selector, rv_field_selectors, rv_tab, rv_content,
                   rv_clicked, rv_settled, rv_caught, rv_failed, rv_html,
                   rv_result>>
    /\ UNCHANGED <<coreVars, mergeVars, normVars, selectVars, extractVars,
                   storeVars, allPlatformsVars, genresVars, scansVars, saveVars, crawlAllVars, fetchPageVars>>

NextReveal ==
    \/ RevealGoto
    \/ RevealQuery
    \/ RevealVisible
    \/ RevealClick
    \/ PageLoads
    \/ RevealSleep
    \/ RevealWait
    \/ RevealContent
    \/ RevealFields
    \/ RevealClose

SpecReveal == InitReveal /\ [][NextReveal]_vars

(***************************************************************************)
(* Properties of the tab block (checked under SpecReveal).                 *)
(***************************************************************************)
\* the tab block ended without revealing the tab
NotRevealed == rv_tab_selector # "" /\ (rv_tab # "visible" \/ rv_caught)

\* C30: with a tab selector configured, the markup is read only after the
\* reveal step has finished (the click and then the settle wait, when the
\* control is visible); when the control is missing or invisible, or the
\* click or its wait raises, the fields are still extracted from the page as
\* it is and the call returns them.
C30_MarkupReadAfterReveal ==
    /\ (rv_html # "" /\ rv_clicked /\ ~rv_caught)
          => (rv_settled /\ rv_html = "revealed")
    /\ (rv_html # "" /\ rv_tab_selector # "")
          => (rv_caught \/ rv_settled \/ rv_tab # "visible")
    /\ (NotRevealed /\ rv_pc \in {"close", "done"} /\ rv_failed = "")
          => /\ rv_html # ""
             /\ DOMAIN rv_result = rv_field_selectors
             /\ rv_result = ExtractFields(rv_html, rv_field_selectors)
             /\ "author" \in rv_field_selectors => rv_result["author"] = "author"

\* C30 witness: the call returned the genre of the revealed tab, which the
\* page finished loading only while the settle wait was running or before.
C30_Witness ==
    /\ rv_pc = "done"
    /\ rv_clicked /\ rv_settled /\ ~rv_caught
    /\ rv_field_selectors = DetailFields
    /\ rv_result = [author |-> "author", genre |-> "genre"]

(***************************************************************************)
(* BaseCrawler.crawl_multiple_genres (base.py:167-203).                    *)
(***************************************************************************)
GenreNames == {"romance", "fantasy"}

\* the lists crawl_all_novels can return for a genre
RECURSIVE GenreNovels(_, _)
GenreNovels(genre, n) ==
    IF n = 0 THEN <<>>
    ELSE Append(GenreNovels(genre, n - 1), [title |-> n, genre |-> genre])

\* variant: the exception of a genre ends the loop
OnGenreException_Break(i) == Len(gn_genres) + 1

\* base.py:199-201: except Exception: log, continue with the next genre
OnGenreException(i) == i + 1

InitGenres ==
    /\ CoreIdle
    /\ MergeIdle
    /\ NormIdle
    /\ SelectIdle
    /\ ExtractIdle
    /\ StoreIdle
    /\ AllPlatformsIdle
    /\ RevealIdle
    /\ ScansIdle
    /\ SaveIdle
    /\ CrawlAllIdle
    /\ FetchPageIdle
    /\ gn_pc = "loop"
    /\ gn_genres \in UNION {[1..n -> GenreNames] : n \in 0..MaxGenres}
    /\ gn_i = 1
    /\ gn_all_novels = <<>>
    /\ gn_attempts = <<>>
    /\ gn_returned = <<>>
    /\ gn_raised = {}

\* base.py:188-201: one round of the loop; crawl_all_novels returns a list,
\* which is appended, or raises, which is logged
CrawlGenre ==
    /\ gn_pc = "loop"
    /\ gn_i <= Len(gn_genres)
    /\ gn_attempts' = Append(gn_attempts, gn_genres[gn_i])
    /\ \/ \E n \in 0..MaxGenreNovels :
            /\ gn_all_novels' = gn_all_novels \o GenreNovels(gn_genres[gn_i], n)
            /\ gn_returned' = Append(gn_returned, GenreNovels(gn_genres[gn_i], n))
            /\ gn_i' = gn_i + 1
            /\ UNCHANGED gn_raised
       \/ /\ gn_raised' = gn_raised \cup {gn_i}
          /\ gn_returned' = Append(gn_returned, <<>>)
          /\ gn_i' = OnGenreException(gn_i)
          /\ UNCHANGED gn_all_novels
    /\ UNCHANGED <<gn_pc, gn_genres>>
    /\ UNCHANGED <<coreVars, mergeVars, normVars, selectVars, extractVars,
                   storeVars, allPlatformsVars, revealVars, scansVars, saveVars, crawlAllVars, fetchPageVars>>

\* base.py:203: return all_novels
GenresReturn ==
    /\ gn_pc = "loop"
    /\ gn_i > Len(gn_genres)
    /\ gn_pc' = "done"
    /\ UNCHANGED <<gn_genres, gn_i, gn_all_novels, gn_attempts, gn_returned,
                   gn_raised>>
    /\ UNCHANGED <<coreVars, mergeVars, normVars, selectVars, extractVars,
                   storeVars, allPlatformsVars, revealVars, scansVars, saveVars, crawlAllVars, fetchPageVars>>

NextGenres ==
    \/ CrawlGenre
    \/ GenresReturn

SpecGenres == InitGenres /\ [][NextGenres]_vars

(***************************************************************************)
(* Properties of crawl_multiple_genres (checked under SpecGenres).         *)
(***************************************************************************)
\* the concatenation of the first n lists of a sequence of lists
RECURSIVE Flatten(_, _)
Flatten(lists, n) ==
    IF n = 0 THEN <<>> ELSE Flatten(lists, n - 1) \o lists[n]

\* C31: crawl_multiple_genres attempts every genre of its input exactly
\* once, in input order, even when the crawl of an earlier genre raises; the
\* result is the concatenation, in genre order, of the lists returned by the
\* genres that did not raise; the call never raises because of a genre.
C31_EveryGenreAttempted ==
    /\ gn_pc \in {"idle", "loop", "done"}
    /\ gn_attempts = SubSeq(gn_genres, 1, Len(gn_attempts))
    /\ gn_all_novels = Flatten(gn_returned, Len(gn_returned))
    /\ gn_pc = "done" => gn_attempts = gn_genres

\* C31 witness: three genres, the first crawl raised, the two later ones
\* were attempted and their novels returned.
C31_Witness ==
    /\ gn_pc = "done"
    /\ Len(gn_genres) = 3
    /\ gn_raised = {1}
    /\ Len(gn_attempts) = 3
    /\ Len(gn_all_novels) = 3

(***************************************************************************)
(* The CLI entry points of crawl_novels.py and the lists they hand to      *)
(* save_crawled_novels: crawl_platform (51-180), crawl_all_platforms       *)
(* (183-234) and crawl_special (237-314).                                  *)
(***************************************************************************)
\* utils.py:174
required_fields ==
    <<"title", "author", "description", "platform", "url", "keywords">>

\* utils.py:176-190: every required field is there and is neither a blank
\* string nor an empty list (keywords is the list-valued field)
validate_novel_data(novel) ==
    \A i \in 1..Len(required_fields) :
        LET field == required_fields[i] IN
        /\ field \in DOMAIN novel
        /\ IF field = "keywords" THEN novel[field] # <<>>
           ELSE Strip(novel[field]) # ""

\* utils.py:203-213
clean_novel_data(novels_arg) == SelectSeq(novels_arg, validate_novel_data)

\* what the crawlers return: a work, the same work again under another url
\* and spelling, a work with a blank description, one without keywords
CrawledNovels ==
    { [title |-> "Ab", author |-> "Kim", description |-> "d",
       platform |-> "p", url |-> "u1", keywords |-> <<"k">>],
      [title |-> " ab", author |-> "Kim", description |-> "d",
       platform |-> "p", url |-> "u2", keywords |-> <<"k">>],
      [title |-> "Cd", author |-> "Kim", description |-> " ",
       platform |-> "p", url |-> "u3", keywords |-> <<"k">>],
      [title |-> "Ef", author |-> "Kim", description |-> "d",
       platform |-> "p", url |-> "u4", keywords |-> <<>>] }

CrawledLists == UNION {[1..n -> CrawledNovels] : n \in 0..MaxSaveLen}

\* python  for l in lists: all_novels.extend(l)
RECURSIVE ExtendAll(_)
ExtendAll(lists) ==
    IF lists = <<>> THEN <<>> ELSE Head(lists) \o ExtendAll(Tail(lists))

\* crawl_novels.py:115-116 and 166-167: what crawl_platform returns for the
\* lists its crawler calls gave
CrawlPlatformResult(lists) ==
    deduplicate_novels(clean_novel_data(ExtendAll(lists)))

\* save_crawled_novels is called with novels_arg when the guard holds
SavedAfter(saved, save_to_db, novels_arg) ==
    IF SaveWanted(save_to_db, novels_arg) THEN Append(saved, novels_arg)
    ELSE saved

InitSave ==
    /\ CoreIdle
    /\ MergeIdle
    /\ NormIdle
    /\ SelectIdle
    /\ ExtractIdle
    /\ StoreIdle
    /\ AllPlatformsIdle
    /\ RevealIdle
    /\ GenresIdle
    /\ ScansIdle
    /\ CrawlAllIdle
    /\ FetchPageIdle
    /\ sv_pc = "start"
    /\ sv_entry \in {"crawl_platform", "crawl_all_platforms", "crawl_special"}
    /\ sv_save_to_db \in BOOLEAN
    /\ \E n \in 1..Len(platforms) :
         /\ sv_entry = "crawl_special" => n = 1
         /\ sv_entry = "crawl_all_platforms" => n = Len(platforms)
         /\ sv_crawled \in [1..n -> CrawledLists]
    /\ sv_saved = <<>>

\* crawl_novels.py:107-125 (one crawl_all_novels call) and 131-180 (one call
\* per genre): clean, deduplicate, save
CrawlPlatformSave ==
    /\ sv_pc = "start"
    /\ sv_entry = "crawl_platform"
    /\ sv_saved' = SavedAfter(sv_saved, sv_save_to_db,
                              CrawlPlatformResult(sv_crawled))
    /\ sv_pc' = "done"
    /\ UNCHANGED <<sv_entry, sv_save_to_db, sv_crawled>>
    /\ UNCHANGED <<coreVars, mergeVars, normVars, selectVars, extractVars,
                   storeVars, allPlatformsVars, revealVars, genresVars,
                   scansVars, crawlAllVars, fetchPageVars>>

\* crawl_novels.py:205-234: every platform through crawl_platform without
\* saving, then deduplicate and save
CrawlAllPlatformsSave ==
    /\ sv_pc = "start"
    /\ sv_entry = "crawl_all_platforms"
    /\ LET per_platform == [i \in 1..Len(sv_crawled) |->
                               CrawlPlatformResult(<<sv_crawled[i]>>)]
       IN sv_saved' = SavedAfter(sv_saved, sv_save_to_db,
                                 deduplicate_novels(ExtendAll(per_platform)))
    /\ sv_pc' = "done"
    /\ UNCHANGED <<sv_entry, sv_save_to_db, sv_crawled>>
    /\ UNCHANGED <<coreVars, mergeVars, normVars, selectVars, extractVars,
                   storeVars, allPlatformsVars, revealVars, genresVars,
                   scansVars, crawlAllVars, fetchPageVars>>

\* crawl_novels.py:278-308: the list of the mode's crawler call is cleaned
\* and saved
CrawlSpecialSave ==
    /\ sv_pc = "start"
    /\ sv_entry = "crawl_special"
    /\ sv_saved' = SavedAfter(sv_saved, sv_save_to_db,
                              clean_novel_data(sv_crawled[1]))
    /\ sv_pc' = "done"
    /\ UNCHANGED <<sv_entry, sv_save_to_db, sv_crawled>>
    /\ UNCHANGED <<coreVars, mergeVars, normVars, selectVars, extractVars,
                   storeVars, allPlatformsVars, revealVars, genresVars,
                   scansVars, crawlAllVars, fetchPageVars>>

NextSave ==
    \/ CrawlPlatformSave
    \/ CrawlAllPlatformsSave
    \/ CrawlSpecialSave

SpecSave == InitSave /\ [][NextSave]_vars

\* C37 (as claimed): every list the CLI entry points hand to
\* save_crawled_novels holds only entities that pass validate_novel_data
\* and no two entities with the same lower-cased, trimmed (title, author).
C37_SavedListsCleanAndUnique ==
    \A s \in 1..Len(sv_saved) :
        /\ \A i \in 1..Len(sv_saved[s]) : validate_novel_data(sv_saved[s][i])
        /\ \A i, j \in 1..Len(sv_saved[s]) :
             i # j => KeyOf(sv_saved[s][i]) # KeyOf(sv_saved[s][j])

(***************************************************************************)
(* BaseCrawler.crawl_all of the scheduled list crawler                     *)
(* (scripts/crawlers/base_crawler.py:112-144).                             *)
(***************************************************************************)
\* python truth value of an Optional[int]: None and 0 are false
Truthy(max_pages) == max_pages # <<>> /\ max_pages[1] # 0

\* base_crawler.py:125
PagesToCrawl(total_pages, max_pages) ==
    IF Truthy(max_pages) THEN Min(total_pages, max_pages[1]) ELSE total_pages

\* main_crawler.py:129-134 and 163-165: --max-pages is an int or absent
MaxPagesArgs == {<<>>} \cup {<<n>> : n \in -1..MaxPagesArg}

InitCrawlAll ==
    /\ CoreIdle
    /\ MergeIdle
    /\ NormIdle
    /\ SelectIdle
    /\ ExtractIdle
    /\ StoreIdle
    /\ AllPlatformsIdle
    /\ RevealIdle
    /\ GenresIdle
    /\ ScansIdle
    /\ SaveIdle
    /\ FetchPageIdle
    /\ ca_pc = "start"
    /\ ca_max_pages \in MaxPagesArgs
    /\ ca_total_pages = 0
    /\ ca_pages_to_crawl = 0
    /\ ca_page = 1
    /\ ca_crawled = <<>>

\* base_crawler.py:124-129: get_total_pages and the number of pages to crawl
CountPages ==
    /\ ca_pc = "start"
    /\ \E total \in 0..MaxTotalPages :
         /\ ca_total_pages' = total
         /\ ca_pages_to_crawl' = PagesToCrawl(total, ca_max_pages)
    /\ ca_pc' = "loop"
    /\ UNCHANGED <<ca_max_pages, ca_page, ca_crawled>>
    /\ UNCHANGED <<coreVars, mergeVars, normVars, selectVars, extractVars,
                   storeVars, allPlatformsVars, revealVars, genresVars,
                   scansVars, saveVars, fetchPageVars>>

\* base_crawler.py:131-141: one round of the loop; crawl_list_page returns
\* or raises, the loop goes on either way
CrawlListPage ==
    /\ ca_pc = "loop"
    /\ ca_page < ca_pages_to_crawl + 1
    /\ ca_crawled' = Append(ca_crawled, ca_page)
    /\ ca_page' = ca_page + 1
    /\ UNCHANGED <<ca_pc, ca_max_pages, ca_total_pages, ca_pages_to_crawl>>
    /\ UNCHANGED <<coreVars, mergeVars, normVars, selectVars, extractVars,
                   storeVars, allPlatformsVars, revealVars, genresVars,
                   scansVars, saveVars, fetchPageVars>>

\* base_crawler.py:143-144: return all_novels
CrawlAllReturn ==
    /\ ca_pc = "loop"
    /\ ~(ca_page < ca_pages_to_crawl + 1)
    /\ ca_pc' = "done"
    /\ UNCHANGED <<ca_max_pages, ca_total_pages, ca_pages_to_crawl, ca_page,
                   ca_crawled>>
    /\ UNCHANGED <<coreVars, mergeVars, normVars, selectVars, extractVars,
                   storeVars, allPlatformsVars, revealVars, genresVars,
                   scansVars, saveVars, fetchPageVars>>

NextCrawlAll ==
    \/ CountPages
    \/ CrawlListPage
    \/ CrawlAllReturn

SpecCrawlAll == InitCrawlAll /\ [][NextCrawlAll]_vars

\* the pages 1..n in ascending order
UpTo(n) == [i \in 1..n |-> i]

\* C38 (as claimed): with max_pages given as an integer, 0 included,
\* crawl_all crawls the pages 1..min(total_pages, max_pages) in ascending
\* order and no more; only max_pages=None means all pages.
C38_AtMostMaxPages ==
    LET wanted == IF ca_max_pages = <<>> THEN ca_total_pages
                  ELSE Min(ca_total_pages, ca_max_pages[1])
    IN /\ ca_pc # "done" => ca_crawled = UpTo(Len(ca_crawled))
       /\ ca_pc \in {"loop", "done"} => Len(ca_crawled) <= IF wanted < 0 THEN 0 ELSE wanted
       /\ ca_pc = "done" => ca_crawled = UpTo(wanted)

(***************************************************************************)
(* BaseCrawler.fetch_page (scripts/crawlers/base_crawler.py:42-74).        *)
(***************************************************************************)
\* the ways one attempt can end: the page is parsed, session.get raises a
\* RequestException (line 57), raise_for_status raises one (line 58), or
\* something that is no RequestException is raised (line 63)
AttemptOutcomes == {"ok", "get_failed", "bad_status", "other_error"}

RequestErrors == {"get_failed", "bad_status"}

\* variant: the last attempt is taken for one that may be retried
LastAttempt_Off(attempt, max_retries) == ~(attempt < max_retries)

\* base_crawler.py:68: the else branch of  if attempt < max_retries - 1
LastAttempt(attempt, max_retries) == ~(attempt < max_retries - 1)

InitFetchPage ==
    /\ CoreIdle
    /\ MergeIdle
    /\ NormIdle
    /\ SelectIdle
    /\ ExtractIdle
    /\ StoreIdle
    /\ AllPlatformsIdle
    /\ RevealIdle
    /\ GenresIdle
    /\ ScansIdle
    /\ SaveIdle
    /\ CrawlAllIdle
    /\ fp_pc = "loop"
    /\ fp_max_retries \in 0..MaxRetries
    /\ fp_attempt = 0
    /\ fp_outcomes = <<>>
    /\ fp_waits = <<>>
    /\ fp_ret = "none"

\* base_crawler.py:53-74: one round of  for attempt in range(max_retries)
FetchAttempt ==
    /\ fp_pc = "loop"
    /\ fp_attempt < fp_max_retries
    /\ \E o \in AttemptOutcomes :
         /\ fp_outcomes' = Append(fp_outcomes, o)
         /\ IF o = "ok"
            THEN /\ fp_ret' = "page"
                 /\ fp_pc' = "done"
                 /\ UNCHANGED <<fp_attempt, fp_waits>>
            ELSE IF o \in RequestErrors
            THEN IF LastAttempt(fp_attempt, fp_max_retries)
                 THEN /\ fp_ret' = "None"
                      /\ fp_pc' = "done"
                      /\ UNCHANGED <<fp_attempt, fp_waits>>
                 ELSE /\ fp_waits' = Append(fp_waits, (fp_attempt + 1) * 2)
                      /\ fp_attempt' = fp_attempt + 1
                      /\ UNCHANGED <<fp_ret, fp_pc>>
            ELSE /\ fp_pc' = "raised"
                 /\ UNCHANGED <<fp_attempt, fp_waits, fp_ret>>
    /\ UNCHANGED fp_max_retries
    /\ UNCHANGED <<coreVars, mergeVars, normVars, selectVars, extractVars,
                   storeVars, allPlatformsVars, revealVars, genresVars,
                   scansVars, saveVars, crawlAllVars>>

\* the range is used up without a return: the function ends, returning None
FetchLoopEnd ==
    /\ fp_pc = "loop"
    /\ ~(fp_attempt < fp_max_retries)
    /\ fp_ret' = "None"
    /\ fp_pc' = "done"
    /\ UNCHANGED <<fp_max_retries, fp_attempt, fp_outcomes, fp_waits>>
    /\ UNCHANGED <<coreVars, mergeVars, normVars, selectVars, extractVars,
                   storeVars, allPlatformsVars, revealVars, genresVars,
                   scansVars, saveVars, crawlAllVars>>

NextFetchPage ==
    \/ FetchAttempt
    \/ FetchLoopEnd

SpecFetchPage == InitFetchPage /\ [][NextFetchPage]_vars

(***************************************************************************)
(* Properties of fetch_page (checked under SpecFetchPage).                 *)
(***************************************************************************)
\* the attempts that ended with a request error
FailedAttempts == {i \in 1..Len(fp_outcomes) : fp_outcomes[i] \in RequestErrors}

\* C39: fetch_page makes at most max_retries request attempts for one url;
\* it returns the page of the first successful attempt without a further
\* attempt, retries only after a failed attempt that is not the last, and
\* returns None, raising no request error, once max_retries attempts in a
\* row have failed.
C39_AtMostMaxRetriesAttempts ==
    /\ Len(fp_outcomes) <= fp_max_retries
    /\ \A i \in 1..(Len(fp_outcomes) - 1) : fp_outcomes[i] \in RequestErrors
    /\ fp_ret = "page" <=>
          (Len(fp_outcomes) >= 1 /\ fp_outcomes[Len(fp_outcomes)] = "ok")
    /\ Len(fp_waits) = Cardinality(FailedAttempts \ {fp_max_retries})
    /\ fp_ret = "None" =>
          /\ fp_pc = "done"
          /\ Len(fp_outcomes) = fp_max_retries
          /\ FailedAttempts = 1..fp_max_retries
    /\ fp_pc = "raised" =>
          (Len(fp_outcomes) >= 1 /\ fp_outcomes[Len(fp_outcomes)] = "other_error")
    /\ fp_pc = "done" => fp_ret \in {"page", "None"}

\* C39 witness: with three attempts allowed, the first two failed and were
\* retried, the third succeeded and its page was returned.
C39_Witness ==
    /\ fp_pc = "done"
    /\ fp_max_retries = 3
    /\ fp_outcomes = <<"get_failed", "bad_status", "ok">>
    /\ fp_waits = <<2, 4>>
    /\ fp_ret = "page"

=============================================================================
